---- MODULE Spec2Model ----
(***************************************************************************)
(* A model of the schema editor's core: the undo/redo history buffer of    *)
(* the diagram canvas, the schema-to-diagram converter and the schema text *)
(* mutator.  Texts and names are sequences of one-character strings, so    *)
(* that scanning, splicing and formatting are computed as the code does.   *)
(***************************************************************************)
EXTENDS Integers, Sequences, FiniteSets, TLC

VARIABLES
    history,        \* diagram-canvas.tsx: const history: HistoryState[]
    historyIndex,   \* diagram-canvas.tsx: let historyIndex (0-based, -1 when empty)
    ret,            \* what the last undo/redo returned (NullState for null)
    lastOp,         \* the operation that ran last: "init", "push", "undo", "redo"
    prevOp,         \* the operation that ran before the last one
    prevRet,        \* what the operation before the last one returned
    before,         \* the entry under the cursor before the last operation
    shifted,        \* whether the last push took the shift() branch
    stamp,          \* number of pushes so far; the pushed state is stamp + 1
    undos,          \* number of undo calls so far
    schema,         \* the document model handed to the converter
    nodes,          \* convertSchemaToNodesAndEdges: nodes
    edges,          \* convertSchemaToNodesAndEdges: edges
    cpc,            \* converter run: "parsed" before, "converted" after
    text,           \* the schema text: the argument of the next mutator call
    input,          \* the text the last mutator call was given
    original,       \* the text before the first mutator call
    conn,           \* addRelationToSchema: connection
    opts,           \* addRelationToSchema: options
    calls,          \* number of mutator calls so far
    diagram,        \* generatePrismaSchema: nodes, edges, datasource, generator
    written,        \* the schema text handed to parsePrismaSchema
    parsed,         \* parsePrismaSchema: the models of the returned document
    ppc,            \* parser run: "diagram", "text", then "parsed"
    inserted,       \* whether addFieldToModel has put a field into the text
    mainContent,    \* schema-store: the content of the main schema file
    otherContent,   \* schema-store: the content of a second schema file
    parsedSchema,   \* schema-store: parsedSchema (its models, or NullSchema)
    error,          \* schema-store: error ("null" or the message)
    updateTimeout,  \* split-editor.tsx: updateTimeoutRef holds a pending timer
    schemaChanged,  \* diagram-canvas.tsx: the schema effect is due to run
    canvasNodes,    \* diagram-canvas.tsx: the nodes state
    canvasEdges,    \* diagram-canvas.tsx: the edges state
    lastParsed,     \* the models of the last parse that returned
    edits,          \* number of changes of the schema files so far
    isUpdatingFromDiagram,  \* split-editor.tsx: isUpdatingFromDiagramRef.current
    schemaFiles,    \* schema-store: schemaFiles
    activeFileId,   \* schema-store: activeFileId
    storeCall,      \* the last call on the store, with its arguments
    storeParsed,    \* the models parsed from getMergedSchema() by that call
    imported,       \* whether importSchemas has been called
    storeCalls,     \* number of calls on the store so far
    shown,          \* diagram-canvas.tsx: the nodes and edges states (0: no nodes)
    lastSave,       \* diagram-canvas.tsx: lastSaveRef.current (NullState for null)
    saveTimeout,    \* diagram-canvas.tsx: saveTimeoutRef holds a pending timer
    canvasOp,       \* the step of the canvas that ran last
    prevCanvasOp    \* the step of the canvas that ran before the last one

hvars == <<history, historyIndex, ret, lastOp, prevOp, prevRet, before, shifted, stamp, undos>>

cvars == <<schema, nodes, edges, cpc>>

mvars == <<text, input, original, conn, opts, calls>>

pvars == <<diagram, written, parsed, ppc, inserted>>

evars == <<mainContent, otherContent, parsedSchema, error, updateTimeout,
           schemaChanged, canvasNodes, canvasEdges, lastParsed, edits,
           isUpdatingFromDiagram>>

svars == <<schemaFiles, activeFileId, storeCall, storeParsed, imported,
           storeCalls>>

kvars == <<shown, lastSave, saveTimeout, canvasOp, prevCanvasOp>>

vars == <<hvars, cvars, mvars, pvars, evars, svars, kvars>>

\* what a history operation, a converter run, a mutator call, a parser run,
\* a handler of the editor and a call on the store leave alone
nonHistoryVars == <<cvars, mvars, pvars, evars, svars, kvars>>
nonConvertVars == <<hvars, mvars, pvars, evars, svars, kvars>>
nonMutateVars == <<hvars, cvars, pvars, evars, svars, kvars>>
nonParseVars == <<hvars, cvars, mvars, evars, svars, kvars>>
nonEditorVars == <<cvars, mvars, pvars, svars, kvars>>
nonStoreVars == <<hvars, cvars, mvars, pvars, evars, kvars>>
nonCanvasVars == <<cvars, mvars, pvars, evars, svars>>

\* the null that undo and redo return at a boundary; states are numbered from 0
NullState == -1

(***************************************************************************)
(* History buffer                                                          *)
(***************************************************************************)

HistoryLimit == 50

MaxPush == 53
MaxUndo == 2

\* the entry under the cursor, NullState when the buffer is empty
Current == IF historyIndex >= 0 /\ historyIndex < Len(history)
           THEN history[historyIndex + 1] ELSE NullState

\* diagram-canvas.tsx: history = [], historyIndex = -1
CanvasHistoryInit ==
    /\ history = <<>>
    /\ historyIndex = -1

\* use-diagram-history.ts: history = [{initialNodes, initialEdges}], index 0
HookHistoryInit ==
    /\ history = <<0>>
    /\ historyIndex = 0

\* the state of the history's variables while another component runs
HistoryIdle ==
    /\ CanvasHistoryInit
    /\ ret = NullState
    /\ lastOp = "init"
    /\ prevOp = "init"
    /\ prevRet = NullState
    /\ before = NullState
    /\ shifted = FALSE
    /\ stamp = 0
    /\ undos = 0

HistoryInit ==
    /\ CanvasHistoryInit \/ HookHistoryInit
    /\ ret = NullState
    /\ lastOp = "init"
    /\ prevOp = "init"
    /\ prevRet = NullState
    /\ before = NullState
    /\ shifted = FALSE
    /\ stamp = 0
    /\ undos = 0

\* pushToHistory without the size limit
pushToHistory_NoLimit ==
    /\ stamp < MaxPush
    /\ LET trimmedHistory == SubSeq(history, 1, historyIndex + 1) \o <<stamp + 1>>
       IN /\ history' = trimmedHistory
          /\ historyIndex' = Len(trimmedHistory) - 1
          /\ shifted' = (Len(trimmedHistory) > HistoryLimit)
    /\ before' = Current
    /\ prevOp' = lastOp
    /\ prevRet' = ret
    /\ stamp' = stamp + 1
    /\ lastOp' = "push"
    /\ ret' = NullState
    /\ UNCHANGED undos
    /\ UNCHANGED nonHistoryVars

\* pushToHistory without the slice(0, historyIndex + 1)
pushToHistory_NoTruncate ==
    /\ stamp < MaxPush
    /\ LET trimmedHistory == history \o <<stamp + 1>>
       IN IF Len(trimmedHistory) > HistoryLimit
          THEN /\ history' = Tail(trimmedHistory)
               /\ historyIndex' = Len(Tail(trimmedHistory)) - 1
               /\ shifted' = TRUE
          ELSE /\ history' = trimmedHistory
               /\ historyIndex' = Len(trimmedHistory) - 1
               /\ shifted' = FALSE
    /\ before' = Current
    /\ prevOp' = lastOp
    /\ prevRet' = ret
    /\ stamp' = stamp + 1
    /\ lastOp' = "push"
    /\ ret' = NullState
    /\ UNCHANGED undos
    /\ UNCHANGED nonHistoryVars

pushToHistory ==
    /\ stamp < MaxPush
    /\ LET trimmedHistory == SubSeq(history, 1, historyIndex + 1) \o <<stamp + 1>>
       IN IF Len(trimmedHistory) > HistoryLimit
          THEN /\ history' = Tail(trimmedHistory)
               /\ historyIndex' = Len(Tail(trimmedHistory)) - 1
               /\ shifted' = TRUE
          ELSE /\ history' = trimmedHistory
               /\ historyIndex' = Len(trimmedHistory) - 1
               /\ shifted' = FALSE
    /\ before' = Current
    /\ prevOp' = lastOp
    /\ prevRet' = ret
    /\ stamp' = stamp + 1
    /\ lastOp' = "push"
    /\ ret' = NullState
    /\ UNCHANGED undos
    /\ UNCHANGED nonHistoryVars

\* undo that returns the entry it leaves instead of the entry it arrives at
undo_ReturnsOld ==
    /\ undos < MaxUndo
    /\ IF historyIndex > 0
       THEN /\ historyIndex' = historyIndex - 1
            /\ ret' = history[historyIndex + 1]
       ELSE /\ ret' = NullState
            /\ UNCHANGED historyIndex
    /\ before' = Current
    /\ prevOp' = lastOp
    /\ prevRet' = ret
    /\ lastOp' = "undo"
    /\ undos' = undos + 1
    /\ UNCHANGED <<history, shifted, stamp>>
    /\ UNCHANGED nonHistoryVars

undo ==
    /\ undos < MaxUndo
    /\ IF historyIndex > 0
       THEN /\ historyIndex' = historyIndex - 1
            /\ ret' = history[historyIndex' + 1]
       ELSE /\ ret' = NullState
            /\ UNCHANGED historyIndex
    /\ before' = Current
    /\ prevOp' = lastOp
    /\ prevRet' = ret
    /\ lastOp' = "undo"
    /\ undos' = undos + 1
    /\ UNCHANGED <<history, shifted, stamp>>
    /\ UNCHANGED nonHistoryVars

redo ==
    /\ IF historyIndex < Len(history) - 1
       THEN /\ historyIndex' = historyIndex + 1
            /\ ret' = history[historyIndex' + 1]
       ELSE /\ ret' = NullState
            /\ UNCHANGED historyIndex
    /\ before' = Current
    /\ prevOp' = lastOp
    /\ prevRet' = ret
    /\ lastOp' = "redo"
    /\ UNCHANGED <<history, shifted, stamp, undos>>
    /\ UNCHANGED nonHistoryVars


(***************************************************************************)
(* Characters and strings                                                  *)
(***************************************************************************)

\* the characters the model's texts are made of, in code-unit order
Chars ==
    <<"\t", "\n", " ", "\"", "(", ")", "*", ",", "-", ".", "/",
      "0", "1", "2", "3", "4", "5", "6", "7", "8", "9", ":", "=", "?", "@",
      "A", "B", "C", "D", "E", "F", "G", "H", "I", "J", "K", "L", "M",
      "N", "O", "P", "Q", "R", "S", "T", "U", "V", "W", "X", "Y", "Z",
      "[", "]", "_",
      "a", "b", "c", "d", "e", "f", "g", "h", "i", "j", "k", "l", "m",
      "n", "o", "p", "q", "r", "s", "t", "u", "v", "w", "x", "y", "z",
      "{", "}">>

CharCode(c) == CHOOSE i \in 1..Len(Chars) : Chars[i] = c

UpperChars ==
    <<"A", "B", "C", "D", "E", "F", "G", "H", "I", "J", "K", "L", "M",
      "N", "O", "P", "Q", "R", "S", "T", "U", "V", "W", "X", "Y", "Z">>

LowerChars ==
    <<"a", "b", "c", "d", "e", "f", "g", "h", "i", "j", "k", "l", "m",
      "n", "o", "p", "q", "r", "s", "t", "u", "v", "w", "x", "y", "z">>

Range(f) == {f[i] : i \in DOMAIN f}

UpperSet == Range(UpperChars)
LowerSet == Range(LowerChars)
DigitSet == {"0", "1", "2", "3", "4", "5", "6", "7", "8", "9"}

\* \w
WordSet == UpperSet \cup LowerSet \cup DigitSet \cup {"_"}

\* \s
SpaceSet == {" ", "\t", "\n"}

\* String.prototype.toLowerCase on one character
ToLowerChar(c) ==
    IF c \in UpperSet
    THEN LowerChars[CHOOSE i \in 1..Len(UpperChars) : UpperChars[i] = c]
    ELSE c

\* a < b in the order Array.prototype.sort uses for strings (code units)
RECURSIVE StrLess(_, _)
StrLess(a, b) ==
    IF b = <<>> THEN FALSE
    ELSE IF a = <<>> THEN TRUE
    ELSE IF a[1] = b[1] THEN StrLess(Tail(a), Tail(b))
    ELSE CharCode(a[1]) < CharCode(b[1])

\* String.prototype.startsWith(p, i) with a 0-based position
StartsWithAt(s, i, p) ==
    /\ i >= 0
    /\ i + Len(p) <= Len(s)
    /\ SubSeq(s, i + 1, i + Len(p)) = p

StartsWith(s, p) == StartsWithAt(s, 0, p)

EndsWith(s, p) == Len(p) <= Len(s) /\ SubSeq(s, Len(s) - Len(p) + 1, Len(s)) = p

\* String.prototype.includes
Includes(s, p) == \E i \in 0..(Len(s) - Len(p)) : StartsWithAt(s, i, p)


Str_id == <<"i", "d">>
Str_Int == <<"I", "n", "t">>
Str_AtId == <<"@", "i", "d">>
Str_AtUnique == <<"@", "u", "n", "i", "q", "u", "e">>
Str_Dash == <<"-">>
Str_DashMM == <<"-", "M", "-", "M">>
Str_Right == <<"-", "r", "i", "g", "h", "t">>
Str_Left == <<"-", "l", "e", "f", "t">>
Str_Dot == <<".">>
Str_Id == <<"I", "d">>
Str_Post == <<"P", "o", "s", "t">>
Str_User == <<"U", "s", "e", "r">>
Str_author == <<"a", "u", "t", "h", "o", "r">>
Str_owner == <<"o", "w", "n", "e", "r">>
Str_editor == <<"e", "d", "i", "t", "o", "r">>
Str_parent == <<"p", "a", "r", "e", "n", "t">>
Str_posts == <<"p", "o", "s", "t", "s">>
Str_tags == <<"t", "a", "g", "s">>
Str_likes == <<"l", "i", "k", "e", "s">>
Str_items == <<"i", "t", "e", "m", "s">>
Str_r == <<"r">>
Str_q == <<"q">>

(***************************************************************************)
(* Schema-to-diagram converter (schema-generator.ts)                       *)
(***************************************************************************)

\* field.relation: undefined, or {name?, fields?, references?}; an absent
\* name is the empty string and an absent list the empty list, which the
\* code's truthiness tests and ?.[0] reads treat alike
NoRelation == [defined |-> FALSE, name |-> <<>>, fields |-> <<>>, references |-> <<>>]

Relation(name, fields, references) ==
    [defined |-> TRUE, name |-> name, fields |-> fields, references |-> references]

PrismaField(name, type, isOptional, isList, attributes, relation) ==
    [name |-> name, type |-> type, isOptional |-> isOptional, isList |-> isList,
     attributes |-> attributes, relation |-> relation]

PrismaModel(name, fields) == [name |-> name, fields |-> fields]

\* schema.models.find((m) => m.name === name): its index, 0 for undefined
FindModel(models, name) ==
    IF \E i \in 1..Len(models) : models[i].name = name
    THEN CHOOSE i \in 1..Len(models) :
             /\ models[i].name = name
             /\ \A j \in 1..(i - 1) : models[j].name # name
    ELSE 0

\* IsInverse that does not compare relation names
IsInverse_IgnoreNames(f, field, modelName) ==
    f.type = modelName /\ f.relation.defined

\* the callback of targetModel.fields.find(...): is f the inverse of field
\* (a field of the model named modelName)?
IsInverse(f, field, modelName) ==
    IF f.type = modelName /\ f.relation.defined
    THEN IF field.relation.name # <<>> /\ f.relation.name # <<>>
         THEN field.relation.name = f.relation.name
         ELSE IF \/ (field.relation.name # <<>> /\ f.relation.name = <<>>)
                 \/ (field.relation.name = <<>> /\ f.relation.name # <<>>)
              THEN FALSE
              ELSE TRUE
    ELSE FALSE

\* targetModel.fields.find(...): index of the inverse field, 0 for undefined
FindInverse(targetModel, field, modelName) ==
    LET fs == targetModel.fields
    IN IF \E i \in 1..Len(fs) : IsInverse(fs[i], field, modelName)
       THEN CHOOSE i \in 1..Len(fs) :
                /\ IsInverse(fs[i], field, modelName)
                /\ \A j \in 1..(i - 1) : ~IsInverse(fs[j], field, modelName)
       ELSE 0

\* [a, b].sort()
SortPair(a, b) == IF StrLess(b, a) THEN <<b, a>> ELSE <<a, b>>

\* relationType from the list marker of the field alone
RelationTypeOf_IgnoreInverse(sourceIsList, targetIsList) ==
    IF sourceIsList THEN "1-M" ELSE "1-1"

\* relationType from the two list markers
RelationTypeOf(sourceIsList, targetIsList) ==
    IF sourceIsList /\ targetIsList THEN "M-M"
    ELSE IF sourceIsList \/ targetIsList THEN "1-M"
    ELSE "1-1"

\* isExplicitRelation that does not look at the inverse side
IsExplicitRelation_IgnoreTarget(hasForeignKey, targetHasForeignKey) ==
    hasForeignKey

\* isExplicitRelation that accepts a foreign key on either side
IsExplicitRelation_EitherSide(hasForeignKey, targetHasForeignKey) ==
    hasForeignKey # targetHasForeignKey

IsExplicitRelation(hasForeignKey, targetHasForeignKey) ==
    hasForeignKey /\ ~targetHasForeignKey

IsImplicitManyToMany(sourceIsList, targetIsList, hasForeignKey, targetHasForeignKey) ==
    sourceIsList /\ targetIsList /\ ~hasForeignKey /\ ~targetHasForeignKey

\* what the converter decides for one field of one model: everything the
\* body of model.fields.forEach computes before it looks at createdEdges
FieldDecision(models, model, field) ==
    LET isRelationField == FindModel(models, field.type) # 0
    IN IF ~isRelationField \/ ~field.relation.defined
       THEN [relational |-> FALSE]
       ELSE
       LET targetModelName == field.type
           targetModel == models[FindModel(models, targetModelName)]
           ti == FindInverse(targetModel, field, model.name)
           hasTarget == ti # 0
           targetField == IF hasTarget THEN targetModel.fields[ti] ELSE field
           hasForeignKey == Len(field.relation.references) > 0
           targetHasForeignKey ==
               hasTarget /\ Len(targetField.relation.references) > 0
           sourceIsList == field.isList
           targetIsList == hasTarget /\ targetField.isList
           relationType == RelationTypeOf(sourceIsList, targetIsList)
           isExplicitRelation == IsExplicitRelation(hasForeignKey, targetHasForeignKey)
           isImplicitManyToMany ==
               IsImplicitManyToMany(sourceIsList, targetIsList,
                                    hasForeignKey, targetHasForeignKey)
           sorted == SortPair(model.name, targetModelName)
           targetFieldName == IF hasTarget THEN targetField.name ELSE <<>>
           edgeId ==
               IF isImplicitManyToMany
               THEN sorted[1] \o Str_Dash \o sorted[2] \o Str_DashMM
               ELSE model.name \o Str_Dash \o targetModelName \o Str_Dash \o field.name
           reverseEdgeId ==
               IF isImplicitManyToMany
               THEN sorted[2] \o Str_Dash \o sorted[1] \o Str_DashMM
               ELSE targetModelName \o Str_Dash \o model.name \o Str_Dash
                        \o targetFieldName
           sourceFieldName ==
               IF hasForeignKey
               THEN (IF Len(field.relation.fields) > 0 /\ field.relation.fields[1] # <<>>
                     THEN field.relation.fields[1] ELSE field.name)
               ELSE field.name
           targetFieldRef ==
               IF hasForeignKey
               THEN (IF field.relation.references[1] # <<>>
                     THEN field.relation.references[1] ELSE Str_id)
               ELSE (IF targetFieldName # <<>> THEN targetFieldName ELSE Str_id)
       IN [relational |-> TRUE,
           hasTarget |-> hasTarget,
           targetIndex |-> ti,
           hasForeignKey |-> hasForeignKey,
           targetHasForeignKey |-> targetHasForeignKey,
           sourceIsList |-> sourceIsList,
           targetIsList |-> targetIsList,
           relationType |-> relationType,
           isExplicitRelation |-> isExplicitRelation,
           isImplicitManyToMany |-> isImplicitManyToMany,
           candidate |-> isExplicitRelation \/ isImplicitManyToMany,
           firstSorted |-> (model.name = sorted[1]),
           edgeId |-> edgeId,
           reverseEdgeId |-> reverseEdgeId,
           edge |->
             IF isImplicitManyToMany
             THEN [id |-> edgeId,
                   source |-> sorted[1],
                   target |-> sorted[2],
                   sourceHandle |-> Str_id \o Str_Right,
                   targetHandle |-> Str_id \o Str_Left,
                   relationType |-> relationType,
                   sourceField |-> sorted[1] \o Str_Dot \o Str_id,
                   targetField |-> sorted[2] \o Str_Dot \o Str_id]
             ELSE [id |-> edgeId,
                   source |-> model.name,
                   target |-> targetModelName,
                   sourceHandle |-> sourceFieldName \o Str_Right,
                   targetHandle |-> targetFieldRef \o Str_Left,
                   relationType |-> relationType,
                   sourceField |-> model.name \o Str_Dot \o sourceFieldName,
                   targetField |-> targetModelName \o Str_Dot \o targetFieldRef]]

\* shouldCreateEdge that does not look at createdEdges
ShouldCreateEdge_IgnoreCreated(d, createdEdges) ==
    /\ d.relational
    /\ d.candidate
    /\ d.isImplicitManyToMany => d.firstSorted

\* ShouldCreateEdge that emits an implicit many-to-many edge from both sides
ShouldCreateEdge_BothSides(d, createdEdges) ==
    /\ d.relational
    /\ d.candidate
    /\ d.edgeId \notin createdEdges
    /\ d.reverseEdgeId \notin createdEdges

\* shouldCreateEdge, given the ids already in createdEdges
ShouldCreateEdge(d, createdEdges) ==
    /\ d.relational
    /\ d.candidate
    /\ IF d.isImplicitManyToMany
       THEN /\ d.firstSorted
            /\ d.edgeId \notin createdEdges
            /\ d.reverseEdgeId \notin createdEdges
       ELSE /\ d.edgeId \notin createdEdges
            /\ d.reverseEdgeId \notin createdEdges

\* model.fields.forEach from field k on; acc = [edges, createdEdges]
RECURSIVE FieldsLoop(_, _, _, _)
FieldsLoop(models, model, k, acc) ==
    IF k > Len(model.fields) THEN acc
    ELSE LET d == FieldDecision(models, model, model.fields[k])
         IN IF ShouldCreateEdge(d, acc.createdEdges)
            THEN FieldsLoop(models, model, k + 1,
                     [edges |-> Append(acc.edges, d.edge),
                      createdEdges |-> acc.createdEdges \cup {d.edgeId, d.reverseEdgeId}])
            ELSE FieldsLoop(models, model, k + 1, acc)

\* schema.models.forEach from model i on; createdEdges starts empty per model
RECURSIVE ModelsLoop(_, _, _)
ModelsLoop(models, i, es) ==
    IF i > Len(models) THEN es
    ELSE ModelsLoop(models, i + 1,
             FieldsLoop(models, models[i], 1,
                        [edges |-> es, createdEdges |-> {}]).edges)

HasAttr(field, marker) ==
    \E a \in 1..Len(field.attributes) : Includes(field.attributes[a], marker)

\* the node built for the i-th model (no saved positions)
NodeOf(models, i) ==
    LET model == models[i]
    IN [id |-> model.name,
        type |-> "modelNode",
        position |-> [x |-> (i - 1) * 300, y |-> 0],
        data |-> [modelName |-> model.name,
                  fields |-> [k \in 1..Len(model.fields) |->
                      LET field == model.fields[k]
                      IN [name |-> field.name,
                          type |-> field.type,
                          isOptional |-> field.isOptional,
                          isList |-> field.isList,
                          isId |-> HasAttr(field, Str_AtId),
                          isUnique |-> HasAttr(field, Str_AtUnique),
                          relationName |-> field.relation.name]]]]

convertSchemaToNodesAndEdges(models) ==
    [nodes |-> [i \in 1..Len(models) |-> NodeOf(models, i)],
     edges |-> ModelsLoop(models, 1, <<>>)]

(***************************************************************************)
(* The documents the converter is run on                                   *)
(***************************************************************************)

\* relational fields in a document, over both of its models
MaxRelFields == 3

SingularNames == <<Str_author, Str_owner, Str_editor, Str_parent>>
ListNames == <<Str_posts, Str_tags, Str_likes, Str_items>>

\* the shape of one relational field (its type is the other model): it is
\* a list or not, its relation is named or not and has fields/references
\* or not
RelShapes ==
    [isList : BOOLEAN, name : {<<>>, Str_r, Str_q}, hasRefs : BOOLEAN]

SeqsUpTo(S, n) == UNION {[1..k -> S] : k \in 0..n}

\* "id Int @id" as the parser reports it (a capitalized type gets an empty
\* relation object)
IdField ==
    PrismaField(Str_id, Str_Int, FALSE, FALSE, <<Str_AtId>>,
                Relation(<<>>, <<>>, <<>>))

ScalarField(name) ==
    PrismaField(name, Str_Int, FALSE, FALSE, <<>>, Relation(<<>>, <<>>, <<>>))

\* the fields of a model: id, then per shape the scalar foreign key (when
\* the relation has references) and the relational field
RECURSIVE ShapeFields(_, _, _, _)
ShapeFields(self, other, shapes, k) ==
    IF k > Len(shapes) THEN <<>>
    ELSE LET sh == shapes[k]
             fk == SingularNames[k] \o Str_Id
             rel == PrismaField(
                        IF sh.isList THEN ListNames[k] ELSE SingularNames[k],
                        other,
                        FALSE, sh.isList, <<>>,
                        IF sh.hasRefs
                        THEN Relation(sh.name, <<fk>>, <<Str_id>>)
                        ELSE Relation(sh.name, <<>>, <<>>))
         IN (IF sh.hasRefs THEN <<ScalarField(fk)>> ELSE <<>>)
                \o <<rel>> \o ShapeFields(self, other, shapes, k + 1)

Document(first, second, shapes1, shapes2) ==
    <<PrismaModel(first, <<IdField>> \o ShapeFields(first, second, shapes1, 1)),
      PrismaModel(second, <<IdField>> \o ShapeFields(second, first, shapes2, 1))>>

NoDiagram == <<>>

ConvertInit ==
    /\ \E order \in {<<Str_Post, Str_User>>, <<Str_User, Str_Post>>} :
         \E shapes1 \in SeqsUpTo(RelShapes, MaxRelFields) :
           \E shapes2 \in SeqsUpTo(RelShapes, MaxRelFields - Len(shapes1)) :
             schema = Document(order[1], order[2], shapes1, shapes2)
    /\ nodes = NoDiagram
    /\ edges = NoDiagram
    /\ cpc = "parsed"

\* the state of the converter's variables while another component runs
ConvertIdle ==
    /\ schema = <<>>
    /\ nodes = NoDiagram
    /\ edges = NoDiagram
    /\ cpc = "idle"

Convert ==
    /\ cpc = "parsed"
    /\ LET out == convertSchemaToNodesAndEdges(schema)
       IN nodes' = out.nodes /\ edges' = out.edges
    /\ cpc' = "converted"
    /\ UNCHANGED schema
    /\ UNCHANGED nonConvertVars

(***************************************************************************)
(* Text primitives of the schema text mutator (lib/schema-updater)         *)
(***************************************************************************)

Str_model == <<"m", "o", "d", "e", "l">>
Str_Space == <<" ">>
Str_Tab == <<"\t">>
Str_Newline == <<"\n">>
Str_TwoSpaces == <<" ", " ">>
Str_IntOptional == <<"I", "n", "t", "?">>
Str_ListMarker == <<"[", "]">>
Str_Question == <<"?">>
Str_RelationFields ==
    <<"@", "r", "e", "l", "a", "t", "i", "o", "n", "(", "f", "i", "e", "l",
      "d", "s", ":", " ", "[">>
Str_References ==
    <<"]", ",", " ", "r", "e", "f", "e", "r", "e", "n", "c", "e", "s", ":",
      " ", "[">>
Str_CloseRelation == <<"]", ")">>
Str_On == <<"O", "n">>
Str_ies == <<"i", "e", "s">>
Str_es == <<"e", "s">>
Str_s == <<"s">>
Str_x == <<"x">>
Str_z == <<"z">>
Str_y == <<"y">>
Str_ch == <<"c", "h">>
Str_sh == <<"s", "h">>
Str_Slashes == <<"/", "/">>
Str_CloseBrace == <<"}">>
Str_NewlineModel == <<"\n", "m", "o", "d", "e", "l", " ">>
Str_OpenBody == <<" ", "{", "\n">>
Str_CompositeId == <<" ", " ", "@", "@", "i", "d", "(", "[">>
Str_CommaSpace == <<",", " ">>
Str_CloseJunction == <<"]", ")", "\n", "}", "\n">>

\* String.prototype.substring(a, b) and substring(a), 0-based
Substring(s, a, b) == SubSeq(s, a + 1, b)
SubstringFrom(s, a) == SubSeq(s, a + 1, Len(s))

\* the least element of a set of positions, none when the set is empty
MinOr(positions, none) ==
    IF positions = {} THEN none
    ELSE CHOOSE p \in positions : \A q \in positions : p <= q

\* the end of the run of \s characters that starts at position i
RECURSIVE SkipSpaces(_, _)
SkipSpaces(s, i) ==
    IF i < Len(s) /\ s[i + 1] \in SpaceSet THEN SkipSpaces(s, i + 1) ELSE i

\* the end of the run of \w characters that starts at position i
RECURSIVE SkipWord(_, _)
SkipWord(s, i) ==
    IF i < Len(s) /\ s[i + 1] \in WordSet THEN SkipWord(s, i + 1) ELSE i

\* \{ at position d: the position after it, -1 when another character is there
OpenBraceEnd(s, d) ==
    IF d < Len(s) /\ s[d + 1] = "{" THEN d + 1 ELSE -1

\* (\w+)\s*\{ with the name from b to c
NameEnd(s, b, c) ==
    IF c > b THEN OpenBraceEnd(s, SkipSpaces(s, c)) ELSE -1

\* \s+(\w+)\s*\{ with the white space from a to b
SpacesEnd(s, a, b) ==
    IF b > a THEN NameEnd(s, b, SkipWord(s, b)) ELSE -1

\* /model\s+(\w+)\s*\{/ tried at position i: the position after the match
\* (that is, after the opening brace), -1 when it does not match there
ModelRegexEnd(s, i) ==
    IF StartsWithAt(s, i, Str_model)
    THEN SpacesEnd(s, i + Len(Str_model), SkipSpaces(s, i + Len(Str_model)))
    ELSE -1

\* the group (\w+) that starts at position b
WordAt(s, b) == Substring(s, b, SkipWord(s, b))

\* the group (\w+) of the match at position i
ModelRegexName(s, i) == WordAt(s, SkipSpaces(s, i + Len(Str_model)))

\* modelRegex.exec from lastIndex i: the position of the next match, -1 for null
NextModelMatch(s, i) ==
    MinOr({j \in i..(Len(s) - Len(Str_model)) :
               s[j + 1] = "m" /\ ModelRegexEnd(s, j) >= 0}, -1)

\* the first position from pos on that holds a brace, -1 when there is none
NextBrace(s, pos) ==
    MinOr({k \in pos..(Len(s) - 1) : s[k + 1] \in {"{", "}"}}, -1)

\* the while loop that counts braces: the position where braceCount reaches
\* 0, -1 when the text ends first (only a brace changes braceCount, so the
\* loop is followed from brace to brace; k is the next brace)
RECURSIVE BraceStep(_, _, _)
BraceStep(s, k, braceCount) ==
    IF k < 0 THEN -1
    ELSE IF s[k + 1] = "{"
    THEN BraceStep(s, NextBrace(s, k + 1), braceCount + 1)
    ELSE IF braceCount = 1 THEN k
    ELSE BraceStep(s, NextBrace(s, k + 1), braceCount - 1)

BraceScan(s, pos, braceCount) == BraceStep(s, NextBrace(s, pos), braceCount)

\* endPos: the matching closing brace, startPos when there is none
EndPosOr(p, startPos) == IF p < 0 THEN startPos ELSE p

MatchingBrace(s, startPos) == EndPosOr(BraceScan(s, startPos, 1), startPos)

\* models.push({ name: modelName, startPos, endPos }) for the match at i
ModelAt(s, i, startPos) ==
    [name |-> ModelRegexName(s, i),
     startPos |-> startPos,
     endPos |-> MatchingBrace(s, startPos)]

\* the while loop of extractModels; i is the position of the next match and
\* the search goes on after the opening brace of the match
RECURSIVE ExtractModelsAt(_, _)
ExtractModelsAt(s, i) ==
    IF i < 0 THEN <<>>
    ELSE <<ModelAt(s, i, ModelRegexEnd(s, i))>>
             \o ExtractModelsAt(s, NextModelMatch(s, ModelRegexEnd(s, i)))

extractModels(schemaContent) ==
    ExtractModelsAt(schemaContent, NextModelMatch(schemaContent, 0))

\* the undefined that models.find returns
NoModel == [name |-> <<>>, startPos |-> -1, endPos |-> -1]

\* models.find((m) => m.name === modelName)
FindExtracted(models, modelName) ==
    IF \E i \in 1..Len(models) : models[i].name = modelName
    THEN models[MinOr({i \in 1..Len(models) : models[i].name = modelName}, 0)]
    ELSE NoModel

\* the pieces of s between the line breaks at the 1-based positions breaks
LinesBetween(s, breaks) ==
    [k \in 1..(Len(breaks) + 1) |->
        SubSeq(s,
               IF k = 1 THEN 1 ELSE breaks[k - 1] + 1,
               IF k > Len(breaks) THEN Len(s) ELSE breaks[k] - 1)]

\* String.prototype.split("\n")
SplitLines(s) ==
    LinesBetween(s, SelectSeq([i \in 1..Len(s) |-> i], LAMBDA i : s[i] = "\n"))

\* Array.prototype.join("\n")
RECURSIVE JoinLines(_)
JoinLines(lines) ==
    IF Len(lines) = 0 THEN <<>>
    ELSE IF Len(lines) = 1 THEN lines[1]
    ELSE lines[1] \o Str_Newline \o JoinLines(Tail(lines))

\* String.prototype.trimRight, also replace(/\s+$/, '')
TrimRight(s) ==
    SubSeq(s, 1, MinOr({n \in 0..Len(s) :
                           /\ n = 0 \/ s[n] \notin SpaceSet
                           /\ \A k \in (n + 1)..Len(s) : s[k] \in SpaceSet},
                       0))

\* match(/^(\s*)/)[1]
LeadingSpaces(s) == Substring(s, 0, SkipSpaces(s, 0))

\* String.prototype.trim
Trim(s) == TrimRight(SubstringFrom(s, SkipSpaces(s, 0)))

\* fieldDefinition.split(/\s+/)[0]
RECURSIVE SkipNonSpaces(_, _)
SkipNonSpaces(s, i) ==
    IF i < Len(s) /\ s[i + 1] \notin SpaceSet THEN SkipNonSpaces(s, i + 1) ELSE i

FirstToken(fieldDefinition) ==
    Substring(fieldDefinition, 0, SkipNonSpaces(fieldDefinition, 0))

\* new RegExp(`^\\s*${fieldName}\\s+`, 'm').test(modelBody): the name stands
\* at some position, a \s character follows it, and only \s characters lie
\* between it and the start of the body or a line break before it
FieldRegexTest(modelBody, fieldName) ==
    \E p \in 0..(Len(modelBody) - Len(fieldName) - 1) :
        /\ StartsWithAt(modelBody, p, fieldName)
        /\ modelBody[p + Len(fieldName) + 1] \in SpaceSet
        /\ \E q \in 0..p :
               /\ q = 0 \/ modelBody[q] = "\n"
               /\ \A k \in (q + 1)..p : modelBody[k] \in SpaceSet

\* schemaContent.substring(model.startPos, model.endPos)
ModelBody(schemaContent, model) ==
    Substring(schemaContent, model.startPos, model.endPos)

\* fieldExistsInModel once the model has been looked up
FieldExistsIn(schemaContent, model, fieldName) ==
    IF model = NoModel THEN FALSE
    ELSE FieldRegexTest(ModelBody(schemaContent, model), fieldName)

fieldExistsInModel(schemaContent, modelName, fieldName) ==
    FieldExistsIn(schemaContent,
                  FindExtracted(extractModels(schemaContent), modelName),
                  fieldName)

\* line.trim().startsWith(fieldName + ' ') || line.trim().startsWith(fieldName + '\t')
TrimmedDeclares(trimmedLine, fieldName) ==
    \/ StartsWith(trimmedLine, fieldName \o Str_Space)
    \/ StartsWith(trimmedLine, fieldName \o Str_Tab)

LineDeclares(line, fieldName) == TrimmedDeclares(Trim(line), fieldName)

\* index of the first line that declares the field, 0 when there is none
FirstDeclaringLine(lines, fieldName) ==
    MinOr({i \in 1..Len(lines) : LineDeclares(lines[i], fieldName)}, 0)

\* replace(/\s*\}\s*$/, '') on a line whose trailing white space is gone
DropClosingBrace(t) ==
    IF Len(t) > 0 /\ t[Len(t)] = "}" THEN SubSeq(t, 1, Len(t) - 1) ELSE t

\* line.replace(/\s*\}\s*$/, '').trimRight()
CleanedLine(line) == TrimRight(DropClosingBrace(TrimRight(line)))

\* `${indent}${fieldDefinition}` plus ` ${attributes}` when there are any
FieldLine(indent, fieldDefinition, attributes) ==
    indent \o fieldDefinition
        \o (IF attributes # <<>> THEN Str_Space \o attributes ELSE <<>>)

\* the text with the body of the model replaced by the joined lines, white
\* space at their end removed and "\n" appended
ReplaceBody(schemaContent, model, lines) ==
    Substring(schemaContent, 0, model.startPos)
        \o TrimRight(JoinLines(lines)) \o Str_Newline
        \o SubstringFrom(schemaContent, model.endPos)

\* lines[i] = newFieldLine for the declaring line i; nothing when i = 0
UpdatedLines(lines, i, fieldDefinition, attributes) ==
    IF i = 0 THEN lines
    ELSE [lines EXCEPT ![i] =
             FieldLine(LeadingSpaces(CleanedLine(lines[i])),
                       fieldDefinition, attributes)]

\* updateFieldInModel once the body is split into lines
UpdateFieldInLines(schemaContent, model, lines, fieldDefinition, attributes) ==
    ReplaceBody(schemaContent, model,
        UpdatedLines(lines,
                     FirstDeclaringLine(lines, FirstToken(fieldDefinition)),
                     fieldDefinition, attributes))

updateFieldInModel(schemaContent, model, fieldDefinition, attributes) ==
    UpdateFieldInLines(schemaContent, model,
                       SplitLines(ModelBody(schemaContent, model)),
                       fieldDefinition, attributes)

\* a line the indentation loop stops at: not blank, no comment, no brace
IndentSource(trimmedLine) ==
    /\ trimmedLine # <<>>
    /\ ~StartsWith(trimmedLine, Str_Slashes)
    /\ ~StartsWith(trimmedLine, Str_CloseBrace)

\* the indentation loop of addFieldToModel: from line k down to the first
\* line, the indentation of the first line that is neither blank, a comment
\* nor a closing brace; two spaces when there is none
RECURSIVE IndentFrom(_, _)
IndentFrom(modelLines, k) ==
    IF k < 1 THEN Str_TwoSpaces
    ELSE IF IndentSource(Trim(modelLines[k]))
    THEN LeadingSpaces(modelLines[k])
    ELSE IndentFrom(modelLines, k - 1)

\* the text that follows the body is dropped but for the closing brace
AppendField_DropAfterModel(schemaContent, model, modelBody, modelLines, fieldDefinition, attributes) ==
    Substring(schemaContent, 0, model.startPos)
        \o TrimRight(modelBody) \o Str_Newline
        \o FieldLine(IndentFrom(modelLines, Len(modelLines) - 1),
                     fieldDefinition, attributes)
        \o Str_CloseBrace

\* beforeModel + trimmedBody + `\n${fieldLine}` + afterModel
AppendField(schemaContent, model, modelBody, modelLines, fieldDefinition, attributes) ==
    Substring(schemaContent, 0, model.startPos)
        \o TrimRight(modelBody) \o Str_Newline
        \o FieldLine(IndentFrom(modelLines, Len(modelLines) - 1),
                     fieldDefinition, attributes)
        \o SubstringFrom(schemaContent, model.endPos)

\* addFieldToModel once the body and the field name are known
AddFieldToBody(schemaContent, model, modelBody, fieldName, fieldDefinition, attributes) ==
    IF FieldRegexTest(modelBody, fieldName)
    THEN IF fieldName = Str_id
         THEN schemaContent
         ELSE updateFieldInModel(schemaContent, model, fieldDefinition,
                                 attributes)
    ELSE AppendField(schemaContent, model, modelBody, SplitLines(modelBody),
                     fieldDefinition, attributes)

\* addFieldToModel once the model has been looked up
AddFieldToFound(schemaContent, model, fieldDefinition, attributes) ==
    IF model = NoModel THEN schemaContent
    ELSE AddFieldToBody(schemaContent, model, ModelBody(schemaContent, model),
                        FirstToken(fieldDefinition), fieldDefinition,
                        attributes)

addFieldToModel(schemaContent, modelName, fieldDefinition, attributes) ==
    AddFieldToFound(schemaContent,
                    FindExtracted(extractModels(schemaContent), modelName),
                    fieldDefinition, attributes)

\* [a-zA-Z0-9]
AlnumSet == UpperSet \cup LowerSet \cup DigitSet

RECURSIVE SkipAlnum(_, _)
SkipAlnum(s, i) ==
    IF i < Len(s) /\ s[i + 1] \in AlnumSet THEN SkipAlnum(s, i + 1) ELSE i

\* the null of trimmedLine.match(fieldRegex)
NoMatch ==
    [matched |-> FALSE, name |-> <<>>, type |-> <<>>,
     optionalMarker |-> <<>>, rest |-> <<>>]

\* (\s+.*)?$ at position d, the groups being t[0..a), t[b..c), t[c..d)
MatchRest(t, a, b, c, d) ==
    IF d = Len(t) \/ t[d + 1] \in SpaceSet
    THEN [matched |-> TRUE,
          name |-> Substring(t, 0, a),
          type |-> Substring(t, b, c),
          optionalMarker |-> Substring(t, c, d),
          rest |-> SubstringFrom(t, d)]
    ELSE NoMatch

\* (\??) at position c
MatchMarker(t, a, b, c) ==
    MatchRest(t, a, b, c, IF c < Len(t) /\ t[c + 1] = "?" THEN c + 1 ELSE c)

\* \s+([A-Z][a-zA-Z0-9]*) with the white space from a to b
MatchType(t, a, b) ==
    IF a > 0 /\ b > a /\ b < Len(t) /\ t[b + 1] \in UpperSet
    THEN MatchMarker(t, a, b, SkipAlnum(t, b))
    ELSE NoMatch

\* ^(\w+) up to position a
MatchName(t, a) == MatchType(t, a, SkipSpaces(t, a))

\* trimmedLine.match(/^(\w+)\s+([A-Z][a-zA-Z0-9]*)(\??)(\s+.*)?$/): the
\* groups of the match, matched = FALSE for null
FieldLineMatch(trimmedLine) == MatchName(trimmedLine, SkipWord(trimmedLine, 0))

\* match && match[1] === fieldName
MatchesField(match, fieldName) == match.matched /\ match.name = fieldName

\* a line the loop of makeFieldOptional stops at
OptionalHit(trimmedLine, fieldName) ==
    /\ TrimmedDeclares(trimmedLine, fieldName)
    /\ MatchesField(FieldLineMatch(trimmedLine), fieldName)

\* the line the loop of makeFieldOptional stops at: the first line that
\* declares the field and matches the field pattern; 0 when there is none
OptionalCandidate(lines, fieldName) ==
    MinOr({i \in 1..Len(lines) : OptionalHit(Trim(lines[i]), fieldName)}, 0)

\* `${indent}${fieldName} ${type}?${attributes ? ' ' + attributes : ''}`
OptionalLine(indent, fieldName, type, attributes) ==
    indent \o fieldName \o Str_Space \o type \o Str_Question
        \o (IF attributes # <<>> THEN Str_Space \o attributes ELSE <<>>)

\* makeFieldOptional for the matched line i
MakeOptionalMatch(schemaContent, model, lines, i, match, fieldName) ==
    IF match.optionalMarker = Str_Question THEN schemaContent
    ELSE ReplaceBody(schemaContent, model,
             [lines EXCEPT ![i] =
                 OptionalLine(LeadingSpaces(lines[i]), fieldName, match.type,
                              Trim(match.rest))])

\* makeFieldOptional once the loop has stopped at line i (0: it did not)
MakeOptionalAt(schemaContent, model, lines, i, fieldName) ==
    IF i = 0 THEN schemaContent
    ELSE MakeOptionalMatch(schemaContent, model, lines, i,
                           FieldLineMatch(Trim(lines[i])), fieldName)

\* makeFieldOptional once the body is split into lines
MakeOptionalInLines(schemaContent, model, lines, fieldName) ==
    MakeOptionalAt(schemaContent, model, lines,
                   OptionalCandidate(lines, fieldName), fieldName)

\* makeFieldOptional once the model has been looked up
MakeOptionalInFound(schemaContent, model, fieldName) ==
    IF model = NoModel THEN schemaContent
    ELSE MakeOptionalInLines(schemaContent, model,
                             SplitLines(ModelBody(schemaContent, model)),
                             fieldName)

makeFieldOptional(schemaContent, modelName, fieldName) ==
    MakeOptionalInFound(schemaContent,
                        FindExtracted(extractModels(schemaContent), modelName),
                        fieldName)

\* modelName.charAt(0).toLowerCase() + modelName.slice(1)
LowerFirst(modelName) ==
    IF modelName = <<>> THEN <<>>
    ELSE <<ToLowerChar(modelName[1])>> \o Tail(modelName)

\* the while loop of addJunctionModel that skips "\n", " " and "\t"
RECURSIVE SkipBlank(_, _)
SkipBlank(s, pos) ==
    IF pos < Len(s) /\ s[pos + 1] \in {"\n", " ", "\t"}
    THEN SkipBlank(s, pos + 1)
    ELSE pos

\* the template literal junctionModel
JunctionText(junctionModelName, sourceModel, targetModel, sourceFkField, targetFkField) ==
    Str_NewlineModel \o junctionModelName \o Str_OpenBody
        \o Str_TwoSpaces \o sourceFkField \o Str_Space \o Str_Int \o Str_Newline
        \o Str_TwoSpaces \o targetFkField \o Str_Space \o Str_Int \o Str_Newline
        \o Str_TwoSpaces \o LowerFirst(sourceModel) \o Str_Space \o sourceModel
        \o Str_Space \o Str_RelationFields \o sourceFkField
        \o Str_References \o Str_id \o Str_CloseRelation \o Str_Newline
        \o Str_TwoSpaces \o LowerFirst(targetModel) \o Str_Space \o targetModel
        \o Str_Space \o Str_RelationFields \o targetFkField
        \o Str_References \o Str_id \o Str_CloseRelation \o Str_Newline
        \o Str_Newline
        \o Str_CompositeId \o sourceFkField \o Str_CommaSpace \o targetFkField
        \o Str_CloseJunction

\* substring(0, insertPosition) + junctionModel + substring(insertPosition)
InsertAt(schemaContent, insertPosition, junctionModel) ==
    Substring(schemaContent, 0, insertPosition)
        \o junctionModel
        \o SubstringFrom(schemaContent, insertPosition)

\* insertPosition: after the last model's closing brace and the blanks that
\* follow it, the end of the text when there is no model
InsertPosition(schemaContent, models) ==
    IF Len(models) > 0
    THEN SkipBlank(schemaContent, models[Len(models)].endPos + 1)
    ELSE Len(schemaContent)

\* addJunctionModel without the check for an entity of that name
AddJunctionAmong_Always(schemaContent, models, name, junctionModel) ==
    InsertAt(schemaContent, InsertPosition(schemaContent, models),
             junctionModel)

\* addJunctionModel once the models have been extracted
AddJunctionAmong(schemaContent, models, name, junctionModel) ==
    IF \E i \in 1..Len(models) : models[i].name = name
    THEN schemaContent
    ELSE InsertAt(schemaContent, InsertPosition(schemaContent, models),
                  junctionModel)

addJunctionModel(schemaContent, name, sourceModel, targetModel, sourceFkField, targetFkField) ==
    AddJunctionAmong(schemaContent, extractModels(schemaContent), name,
        JunctionText(name, sourceModel, targetModel, sourceFkField,
                     targetFkField))

pluralize(word) ==
    IF EndsWith(word, Str_y)
    THEN SubSeq(word, 1, Len(word) - 1) \o Str_ies
    ELSE IF \/ EndsWith(word, Str_s)
            \/ EndsWith(word, Str_x)
            \/ EndsWith(word, Str_z)
            \/ EndsWith(word, Str_ch)
            \/ EndsWith(word, Str_sh)
    THEN word \o Str_es
    ELSE word \o Str_s

modelToFieldName(modelName, plural) ==
    IF plural THEN pluralize(LowerFirst(modelName)) ELSE LowerFirst(modelName)

\* the options of the relation dialog; junctionOrder "none" and nullable
\* FALSE stand for the absent optional members
RelationOptions(type, mode, junctionOrder, nullableSource) ==
    [type |-> type, mode |-> mode, junctionOrder |-> junctionOrder,
     nullable |-> [source |-> nullableSource]]

ConnectionInfo(sourceModel, sourceField, targetModel, targetField) ==
    [sourceModel |-> sourceModel, sourceField |-> sourceField,
     targetModel |-> targetModel, targetField |-> targetField]

\* the junction name that ignores the requested order
junctionModelName_IgnoreOrder(options, sourceModel, targetModel) ==
    sourceModel \o Str_On \o targetModel

junctionModelName(options, sourceModel, targetModel) ==
    IF options.junctionOrder = "BonA"
    THEN targetModel \o Str_On \o sourceModel
    ELSE sourceModel \o Str_On \o targetModel

\* `@relation(fields: [${f}], references: [${r}])`
RelationAttribute(f, r) ==
    Str_RelationFields \o f \o Str_References \o r \o Str_CloseRelation

\* the branch "foreign key is on the source model" of the 1-1 and 1-M cases
ForeignKeyOnSource(schemaContent, connection, targetHasFk) ==
    LET sourceHasFk == fieldExistsInModel(schemaContent, connection.sourceModel,
                                          connection.sourceField)
        sourceFieldIsFk ==
            sourceHasFk /\ (\/ EndsWith(connection.sourceField, Str_Id)
                            \/ EndsWith(connection.sourceField, Str_id))
    IN \/ sourceFieldIsFk
       \/ ~targetHasFk /\ EndsWith(connection.sourceField, Str_Id)

\* the one-to-one branch that declares the relation field as a list
OneToOne_ListTyped(schemaContent, connection, options) ==
    addFieldToModel(schemaContent, connection.sourceModel,
        modelToFieldName(connection.targetModel, FALSE) \o Str_Space
            \o connection.targetModel \o Str_ListMarker,
        RelationAttribute(connection.sourceField, connection.targetField))

\* relationType === "1-1"
OneToOne(schemaContent, connection, options) ==
    LET sourceModel == connection.sourceModel
        targetModel == connection.targetModel
        targetFieldNameSingular == modelToFieldName(targetModel, FALSE)
        targetFkName == targetFieldNameSingular \o Str_Id
        targetHasFk == fieldExistsInModel(schemaContent, targetModel, targetFkName)
    IN IF ForeignKeyOnSource(schemaContent, connection, targetHasFk)
       THEN addFieldToModel(schemaContent, sourceModel,
                targetFieldNameSingular \o Str_Space \o targetModel,
                RelationAttribute(connection.sourceField, connection.targetField))
       ELSE LET s1 == addFieldToModel(schemaContent, targetModel,
                          targetFkName \o Str_Space \o Str_Int, <<>>)
            IN addFieldToModel(s1, targetModel,
                   targetFieldNameSingular \o Str_Space \o sourceModel,
                   RelationAttribute(targetFkName, Str_id))

\* relationType === "1-M"; the implicit and the explicit branch of the code
\* are the same statements
OneToMany(schemaContent, connection, options) ==
    LET sourceModel == connection.sourceModel
        targetModel == connection.targetModel
        targetFieldNamePlural == modelToFieldName(targetModel, TRUE)
        sourceFieldNamePlural == modelToFieldName(sourceModel, TRUE)
        sourceFieldNameSingular == modelToFieldName(sourceModel, FALSE)
        targetFieldNameSingular == modelToFieldName(targetModel, FALSE)
        sourceFkName == sourceFieldNameSingular \o Str_Id
        targetHasFk == fieldExistsInModel(schemaContent, targetModel, sourceFkName)
    IN IF ForeignKeyOnSource(schemaContent, connection, targetHasFk)
       THEN LET s1 == IF options.nullable.source
                      THEN makeFieldOptional(schemaContent, sourceModel,
                                             connection.sourceField)
                      ELSE schemaContent
                s2 == addFieldToModel(s1, sourceModel,
                          targetFieldNameSingular \o Str_Space \o targetModel,
                          RelationAttribute(connection.sourceField,
                                            connection.targetField))
            IN addFieldToModel(s2, targetModel,
                   sourceFieldNamePlural \o Str_Space \o sourceModel
                       \o Str_ListMarker, <<>>)
       ELSE LET fkType == IF options.nullable.source THEN Str_IntOptional
                          ELSE Str_Int
                s1 == addFieldToModel(schemaContent, targetModel,
                          sourceFkName \o Str_Space \o fkType, <<>>)
                s2 == addFieldToModel(s1, targetModel,
                          sourceFieldNameSingular \o Str_Space \o sourceModel,
                          RelationAttribute(sourceFkName, Str_id))
            IN addFieldToModel(s2, sourceModel,
                   targetFieldNamePlural \o Str_Space \o targetModel
                       \o Str_ListMarker, <<>>)

\* the implicit many-to-many branch that leaves the target entity alone
ManyToManyImplicit_SourceOnly(schemaContent, connection) ==
    addFieldToModel(schemaContent, connection.sourceModel,
        modelToFieldName(connection.targetModel, TRUE) \o Str_Space
            \o connection.targetModel \o Str_ListMarker, <<>>)

\* relationType === "M-M", relationMode === "implicit"
ManyToManyImplicit(schemaContent, connection) ==
    LET sourceModel == connection.sourceModel
        targetModel == connection.targetModel
        s1 == addFieldToModel(schemaContent, sourceModel,
                  modelToFieldName(targetModel, TRUE) \o Str_Space
                      \o targetModel \o Str_ListMarker, <<>>)
    IN addFieldToModel(s1, targetModel,
           modelToFieldName(sourceModel, TRUE) \o Str_Space
               \o sourceModel \o Str_ListMarker, <<>>)

\* relationType === "M-M", relationMode === "explicit"
ManyToManyExplicit(schemaContent, connection, options) ==
    LET sourceModel == connection.sourceModel
        targetModel == connection.targetModel
        junction == junctionModelName(options, sourceModel, targetModel)
        junctionFieldName == LowerFirst(junction)
        sourceFkField == LowerFirst(sourceModel) \o Str_Id
        targetFkField == LowerFirst(targetModel) \o Str_Id
        s1 == addFieldToModel(schemaContent, sourceModel,
                  junctionFieldName \o Str_Space \o junction
                      \o Str_ListMarker, <<>>)
        s2 == addFieldToModel(s1, targetModel,
                  junctionFieldName \o Str_Space \o junction
                      \o Str_ListMarker, <<>>)
    IN addJunctionModel(s2, junction, sourceModel, targetModel,
                        sourceFkField, targetFkField)

addRelationToSchema(schemaContent, connection, options) ==
    IF options.type = "1-1"
    THEN OneToOne(schemaContent, connection, options)
    ELSE IF options.type = "1-M"
    THEN OneToMany(schemaContent, connection, options)
    ELSE IF options.type = "M-M"
    THEN IF options.mode = "implicit"
         THEN ManyToManyImplicit(schemaContent, connection)
         ELSE ManyToManyExplicit(schemaContent, connection, options)
    ELSE schemaContent

(***************************************************************************)
(* The schema text parser (lib/prisma-parser)                              *)
(***************************************************************************)

Str_BlockOpen == <<"/", "*">>
Str_BlockClose == <<"*", "/">>
Str_Separator == <<"=", "=", "=">>
Str_At == <<"@">>
Str_AtRelation == <<"@", "r", "e", "l", "a", "t", "i", "o", "n">>
Str_AtRelationOpen == <<"@", "r", "e", "l", "a", "t", "i", "o", "n", "(">>
Str_nameKey == <<"n", "a", "m", "e", ":">>
Str_fieldsKey == <<"f", "i", "e", "l", "d", "s", ":">>
Str_referencesKey ==
    <<"r", "e", "f", "e", "r", "e", "n", "c", "e", "s", ":">>
Str_OpenParen == <<"(">>
Str_CloseParen == <<")">>

\* the s without the characters from position p up to position q
Cut(s, p, q) == Substring(s, 0, p) \o SubstringFrom(s, q)

\* the first "*/" from position p on: the position after it
BlockEnd(s, p) ==
    MinOr({q \in p..(Len(s) - 2) : StartsWithAt(s, q, Str_BlockClose)}, -3) + 2

\* the first match of /\/\*[\s\S]*?\*\// from position i on, -1 for none
BlockStart(s, i) ==
    MinOr({p \in i..(Len(s) - 4) :
               /\ StartsWithAt(s, p, Str_BlockOpen)
               /\ BlockEnd(s, p + 2) >= 0}, -1)

\* schema.replace(/\/\*[\s\S]*?\*\//g, ""); p is the next match
RECURSIVE StripBlocksAt(_, _)
StripBlocksAt(s, p) ==
    IF p < 0 THEN s
    ELSE StripBlocksAt(Cut(s, p, BlockEnd(s, p + 2)),
                       BlockStart(Cut(s, p, BlockEnd(s, p + 2)), p))

StripBlockComments(s) == StripBlocksAt(s, BlockStart(s, 0))

\* the positions where /\/\/(?!\s*===)/ matches
LineCommentStarts(s) ==
    {p \in 0..(Len(s) - 2) :
        /\ StartsWithAt(s, p, Str_Slashes)
        /\ ~StartsWithAt(s, SkipSpaces(s, p + 2), Str_Separator)}

\* the character at the 1-based position k is removed with a comment: it is
\* no line break and a match starts before it on its line
InLineComment(s, starts, k) ==
    \E p \in starts : p < k /\ \A j \in (p + 1)..k : s[j] # "\n"

\* the characters of s at the 1-based positions kept, in order
Pick(s, kept) == [k \in 1..Len(kept) |-> s[kept[k]]]

\* cleanSchema.replace(/\/\/(?!\s*===).*$/gm, "") with the match positions
StripLineCommentsAt(s, starts) ==
    Pick(s, SelectSeq([k \in 1..Len(s) |-> k],
                      LAMBDA k : ~InLineComment(s, starts, k)))

StripLineComments(s) == StripLineCommentsAt(s, LineCommentStarts(s))

\* cleanSchema
CleanSchema(source) == StripLineComments(StripBlockComments(source))

\* the end of the optional group (?:\(([^)]*)\))? tried at position c: the
\* position after the first ")" when "(" stands at c and a ")" follows it,
\* c otherwise
AttrValueEnd(content, c) ==
    IF c < Len(content) /\ content[c + 1] = "("
    THEN MinOr({q \in (c + 1)..(Len(content) - 1) : content[q + 1] = ")"},
               c - 1) + 1
    ELSE c

\* `@${attrName}${attrValue ? `(${attrValue})` : ""}` for the match from p,
\* its name ending at c and the whole match at e
AttrText(content, p, c, e) ==
    IF e > c + 2 THEN Substring(content, p, e) ELSE Substring(content, p, c)

\* attrRegex.exec from lastIndex i: the position of the next "@" that a \w
\* character follows, -1 for null
NextAttr(content, i) ==
    MinOr({p \in i..(Len(content) - 2) :
               content[p + 1] = "@" /\ content[p + 2] \in WordSet}, -1)

\* the while loop of extractAttributes; p is the position of the next match
RECURSIVE ExtractAttributesAt(_, _)
ExtractAttributesAt(content, p) ==
    IF p < 0 THEN <<>>
    ELSE <<AttrText(content, p, SkipWord(content, p + 1),
                    AttrValueEnd(content, SkipWord(content, p + 1)))>>
             \o ExtractAttributesAt(content,
                    NextAttr(content,
                             AttrValueEnd(content, SkipWord(content, p + 1))))

extractAttributes(content) == ExtractAttributesAt(content, NextAttr(content, 0))

\* the closing character of the group that opens at position a: open stands
\* at a, at least one other character follows, then the first close; -1
\* when the text does not go on like that
GroupClose(content, a, open, close) ==
    IF a < Len(content) /\ content[a + 1] = open
    THEN MinOr({q \in (a + 2)..(Len(content) - 1) :
                   /\ content[q + 1] = close
                   /\ \A k \in (a + 1)..(q - 1) : content[k + 1] # close}, -1)
    ELSE -1

\* the position where the group of key\s*open([^close]+)close opens, for
\* the first match of the pattern in content; -1 when there is no match
KeyGroupOpen(content, key, open, close) ==
    MinOr({SkipSpaces(content, p + Len(key)) :
               p \in {p \in 0..(Len(content) - Len(key)) :
                        /\ StartsWithAt(content, p, key)
                        /\ GroupClose(content,
                                      SkipSpaces(content, p + Len(key)),
                                      open, close) >= 0}}, -1)

\* the group between the opening character at position a and its close
GroupAt(content, a, open, close) ==
    IF a < 0 THEN <<>>
    ELSE Substring(content, a + 1, GroupClose(content, a, open, close))

\* content.match(key\s*open([^close]+)close)?.[1], <<>> for undefined
KeyGroup(content, key, open, close) ==
    GroupAt(content, KeyGroupOpen(content, key, open, close), open, close)

\* the pieces of s between the occurrences of the character c at breaks
PiecesBetween(s, breaks) ==
    [k \in 1..(Len(breaks) + 1) |->
        SubSeq(s,
               IF k = 1 THEN 1 ELSE breaks[k - 1] + 1,
               IF k > Len(breaks) THEN Len(s) ELSE breaks[k] - 1)]

\* String.prototype.split(",")
SplitCommas(s) ==
    PiecesBetween(s, SelectSeq([i \in 1..Len(s) |-> i], LAMBDA i : s[i] = ","))

\* f.trim().replace(/"/g, "")
NameOf(piece) == SelectSeq(Trim(piece), LAMBDA c : c # "\"")

\* group?.split(",").map((f) => f.trim().replace(/"/g, "")), <<>> for undefined
NameList(group) ==
    IF group = <<>> THEN <<>>
    ELSE [k \in 1..Len(SplitCommas(group)) |-> NameOf(SplitCommas(group)[k])]

\* relationAttr.match(/@relation\(([^)]*)\)/): the position where the match
\* starts, -1 for null
RelationMatch(relationAttr) ==
    MinOr({p \in 0..(Len(relationAttr) - Len(Str_AtRelationOpen)) :
               /\ StartsWithAt(relationAttr, p, Str_AtRelationOpen)
               /\ \E q \in (p + Len(Str_AtRelationOpen) + 1)..Len(relationAttr) :
                      relationAttr[q] = ")"}, -1)

\* relationMatch[1]
RelationContent(relationAttr, p) ==
    Substring(relationAttr, p + Len(Str_AtRelationOpen),
              AttrValueEnd(relationAttr, p + Len(Str_AtRelation)) - 1)

\* relation = { name, fields, references } read from relationContent
RelationOf(relationContent) ==
    Relation(KeyGroup(relationContent, Str_nameKey, "\"", "\""),
             NameList(KeyGroup(relationContent, Str_fieldsKey, "[", "]")),
             NameList(KeyGroup(relationContent, Str_referencesKey, "[", "]")))

\* the relation of a field with a @relation attribute
ExplicitRelation(relationAttr, p) ==
    IF p < 0 THEN NoRelation
    ELSE RelationOf(RelationContent(relationAttr, p))

\* attributes.find((attr) => attr.startsWith("@relation")): its index, 0 for
\* undefined
FindRelationAttr(attributes) ==
    MinOr({i \in 1..Len(attributes) : StartsWith(attributes[i], Str_AtRelation)},
          0)

\* let relation, for the attribute at index r (0: there is none)
FieldRelation(attributes, r, isList, baseType) ==
    IF r > 0
    THEN ExplicitRelation(attributes[r], RelationMatch(attributes[r]))
    ELSE IF isList \/ (Len(baseType) > 0 /\ baseType[1] \in UpperSet)
    THEN Relation(<<>>, <<>>, <<>>)
    ELSE NoRelation

\* the end of the run of characters other than \s, @ and ? from position i
RECURSIVE SkipTypeChars(_, _)
SkipTypeChars(s, i) ==
    IF i < Len(s) /\ s[i + 1] \notin (SpaceSet \cup {"@", "?"})
    THEN SkipTypeChars(s, i + 1)
    ELSE i

\* \s+([^\s@?]+?) with the white space from a to b and the type up to c; the
\* rest of the pattern, (\??)(\s+.*)?$, is the one of the mutator's pattern
ParserMatchType(t, a, b, c) ==
    IF a > 0 /\ b > a /\ c > b THEN MatchMarker(t, a, b, c) ELSE NoMatch

ParserMatchName(t, a) ==
    ParserMatchType(t, a, SkipSpaces(t, a), SkipTypeChars(t, SkipSpaces(t, a)))

\* trimmed.match(/^(\w+)\s+([^\s@?]+?)(\??)(\s+.*)?$/)
ParserLineMatch(trimmed) == ParserMatchName(trimmed, SkipWord(trimmed, 0))

\* typePart.endsWith("[]") and the type without the list marker
BaseType(typePart) ==
    IF EndsWith(typePart, Str_ListMarker)
    THEN SubSeq(typePart, 1, Len(typePart) - 2)
    ELSE typePart

\* fields.push({...}) for a matched line and its attributes
ParsedField(match, attributes) ==
    PrismaField(match.name,
                BaseType(match.type),
                match.optionalMarker = Str_Question,
                EndsWith(match.type, Str_ListMarker),
                attributes,
                FieldRelation(attributes, FindRelationAttr(attributes),
                              EndsWith(match.type, Str_ListMarker),
                              BaseType(match.type)))

\* the field is pushed whether or not the line matched the field grammar
MatchedField_KeepUnmatched(match) ==
    <<ParsedField(match, extractAttributes(match.rest))>>

\* the fields a matched line adds
MatchedField(match) ==
    IF match.matched
    THEN <<ParsedField(match, extractAttributes(match.rest))>>
    ELSE <<>>

\* the body of the for loop of parseModelFields for one trimmed line
LineFields(trimmed) ==
    IF \/ trimmed = <<>>
       \/ StartsWith(trimmed, Str_Slashes)
       \/ StartsWith(trimmed, Str_At)
       \/ trimmed = Str_CloseBrace
    THEN <<>>
    ELSE MatchedField(ParserLineMatch(trimmed))

RECURSIVE FieldsOfLines(_, _)
FieldsOfLines(lines, k) ==
    IF k > Len(lines) THEN <<>>
    ELSE LineFields(Trim(lines[k])) \o FieldsOfLines(lines, k + 1)

parseModelFields(body) == FieldsOfLines(SplitLines(body), 1)

\* result.models.push({ name, fields }) for each model the scan finds
ParsedModels(cleanSchema, models) ==
    [i \in 1..Len(models) |->
        PrismaModel(models[i].name,
                    parseModelFields(ModelBody(cleanSchema, models[i])))]

\* the models of the parsed document; the model loop of the parser is the
\* scan of extractModels, statement for statement, run on cleanSchema.  The
\* datasource, generator and enum members of the result are not modelled.
ParseClean(cleanSchema) == ParsedModels(cleanSchema, extractModels(cleanSchema))

parsePrismaSchema(source) == ParseClean(CleanSchema(source))

(***************************************************************************)
(* The schema text generator (lib/schema-generator: generatePrismaSchema)  *)
(***************************************************************************)

Line_datasource ==
    <<"d", "a", "t", "a", "s", "o", "u", "r", "c", "e", " ", "d", "b", " ",
      "{">>
Str_provider ==
    <<" ", " ", "p", "r", "o", "v", "i", "d", "e", "r", " ", "=", " ",
      "\"">>
Str_Quote == <<"\"">>
Line_url ==
    <<" ", " ", "u", "r", "l", " ", " ", " ", " ", " ", " ", "=", " ", "e",
      "n", "v", "(", "\"", "D", "A", "T", "A", "B", "A", "S", "E", "_",
      "U", "R", "L", "\"", ")">>
Line_generator ==
    <<"g", "e", "n", "e", "r", "a", "t", "o", "r", " ", "c", "l", "i", "e",
      "n", "t", " ", "{">>
Str_output ==
    <<" ", " ", "o", "u", "t", "p", "u", "t", " ", " ", " ", "=", " ",
      "\"">>
Str_OpenModel == <<" ", "{">>
Str_RelationQuoted ==
    <<"@", "r", "e", "l", "a", "t", "i", "o", "n", "(", "\"">>
Str_QuoteParen == <<"\"", ")">>
Str_RelationNamed ==
    <<"@", "r", "e", "l", "a", "t", "i", "o", "n", "(", "n", "a", "m", "e",
      ":", " ", "\"">>
Str_rel == <<"r", "e", "l", "_">>
Str_Underscore == <<"_">>

\* an absent datasource or generator argument
Absent == [present |-> FALSE, provider |-> <<>>, extra |-> <<>>]

\* a datasource (extra is its url) or a generator (extra is its output)
Block(provider, extra) == [present |-> TRUE, provider |-> provider, extra |-> extra]

\* the lines pushed for the datasource argument
DatasourceLines(datasource) ==
    IF datasource.present
    THEN <<Line_datasource, Str_provider \o datasource.provider \o Str_Quote>>
             \o (IF datasource.extra # <<>> THEN <<Line_url>> ELSE <<>>)
             \o <<Str_CloseBrace, <<>>>>
    ELSE <<>>

\* the lines pushed for the generator argument
GeneratorLines(generator) ==
    IF generator.present
    THEN <<Line_generator, Str_provider \o generator.provider \o Str_Quote>>
             \o (IF generator.extra # <<>>
                 THEN <<Str_output \o generator.extra \o Str_Quote>>
                 ELSE <<>>)
             \o <<Str_CloseBrace, <<>>>>
    ELSE <<>>

\* the callback of edges.find for the field of the node
IsRelationEdge(e, nodeId, fieldName) ==
    \/ e.source = nodeId /\ e.targetHandle = fieldName
    \/ e.target = nodeId /\ e.sourceHandle = fieldName

\* edges.find(...): index of the edge, 0 for undefined
FindRelationEdge(diagramEdges, nodeId, fieldName) ==
    MinOr({i \in 1..Len(diagramEdges) :
               IsRelationEdge(diagramEdges[i], nodeId, fieldName)}, 0)

\* nodes.find((n) => n.id === relationEdge.target || n.id === relationEdge.source)
FindTargetNode(diagramNodes, relationEdge) ==
    MinOr({i \in 1..Len(diagramNodes) :
               \/ diagramNodes[i].id = relationEdge.target
               \/ diagramNodes[i].id = relationEdge.source}, 0)

\* the @relation attribute taken from the edge found for the field
EdgeRelationAttrs(diagramNodes, modelName, relationEdge, t) ==
    IF t > 0 /\ relationEdge.relationType # "M-M"
    THEN <<Str_RelationNamed \o Str_rel \o modelName \o Str_Underscore
              \o diagramNodes[t].data.modelName \o Str_QuoteParen>>
    ELSE <<>>

\* the else branch of "if (field.relationName)"; r is the edge found
EdgeAttrs(diagramNodes, diagramEdges, modelName, r) ==
    IF r > 0
    THEN EdgeRelationAttrs(diagramNodes, modelName, diagramEdges[r],
                           FindTargetNode(diagramNodes, diagramEdges[r]))
    ELSE <<>>

\* attrs for the field of the node
FieldAttrs(diagramNodes, diagramEdges, node, field) ==
    (IF field.isId THEN <<Str_AtId>> ELSE <<>>)
        \o (IF field.isUnique THEN <<Str_AtUnique>> ELSE <<>>)
        \o (IF field.relationName # <<>>
            THEN <<Str_RelationQuoted \o field.relationName \o Str_QuoteParen>>
            ELSE EdgeAttrs(diagramNodes, diagramEdges, node.data.modelName,
                           FindRelationEdge(diagramEdges, node.id, field.name)))

\* attrs.join(" ")
RECURSIVE JoinSpaces(_)
JoinSpaces(attrs) ==
    IF Len(attrs) = 0 THEN <<>>
    ELSE IF Len(attrs) = 1 THEN attrs[1]
    ELSE attrs[1] \o Str_Space \o JoinSpaces(Tail(attrs))

\* the field line without the blank between the name and the type
GeneratedFieldLine_NoSeparator(field, attrs) ==
    Str_TwoSpaces \o field.name \o field.type
        \o (IF field.isList THEN Str_ListMarker ELSE <<>>)
        \o (IF field.isOptional THEN Str_Question ELSE <<>>)
        \o (IF Len(attrs) > 0 THEN Str_Space \o JoinSpaces(attrs) ELSE <<>>)

\* fieldLine for the field and its attrs
GeneratedFieldLine(field, attrs) ==
    Str_TwoSpaces \o field.name \o Str_Space \o field.type
        \o (IF field.isList THEN Str_ListMarker ELSE <<>>)
        \o (IF field.isOptional THEN Str_Question ELSE <<>>)
        \o (IF Len(attrs) > 0 THEN Str_Space \o JoinSpaces(attrs) ELSE <<>>)

\* the lines pushed for one node; a node without a model name is skipped
NodeLines(diagramNodes, diagramEdges, node) ==
    IF node.data.modelName = <<>> THEN <<>>
    ELSE <<Str_model \o Str_Space \o node.data.modelName \o Str_OpenModel>>
             \o [k \in 1..Len(node.data.fields) |->
                    GeneratedFieldLine(node.data.fields[k],
                        FieldAttrs(diagramNodes, diagramEdges, node,
                                   node.data.fields[k]))]
             \o <<Str_CloseBrace, <<>>>>

RECURSIVE NodesLines(_, _, _)
NodesLines(diagramNodes, diagramEdges, i) ==
    IF i > Len(diagramNodes) THEN <<>>
    ELSE NodeLines(diagramNodes, diagramEdges, diagramNodes[i])
             \o NodesLines(diagramNodes, diagramEdges, i + 1)

generatePrismaSchema(diagramNodes, diagramEdges, datasource, generator) ==
    JoinLines(DatasourceLines(datasource) \o GeneratorLines(generator)
                  \o NodesLines(diagramNodes, diagramEdges, 1))

(***************************************************************************)
(* Mutator calls: the texts, connections and options they are given        *)
(***************************************************************************)

Str_Category == <<"C", "a", "t", "e", "g", "o", "r", "y">>
Str_title == <<"t", "i", "t", "l", "e">>
Str_categoryId == <<"c", "a", "t", "e", "g", "o", "r", "y", "I", "d">>

\* two entities, the source without a foreign key
Schema_PostCategory ==
    <<"m", "o", "d", "e", "l", " ", "P", "o", "s", "t", " ", "{", "\n",
      " ", " ", "i", "d", " ", "I", "n", "t", " ", "@", "i", "d", "\n",
      " ", " ", "t", "i", "t", "l", "e", " ", "S", "t", "r", "i", "n", "g",
      "\n", "}", "\n", "\n", "m", "o", "d", "e", "l", " ", "C", "a", "t",
      "e", "g", "o", "r", "y", " ", "{", "\n", " ", " ", "i", "d", " ",
      "I", "n", "t", " ", "@", "i", "d", "\n", "}", "\n">>

\* two entities, Post holds the scalar categoryId
Schema_ForeignKey ==
    <<"m", "o", "d", "e", "l", " ", "P", "o", "s", "t", " ", "{", "\n",
      " ", " ", "i", "d", " ", "I", "n", "t", " ", "@", "i", "d", "\n",
      " ", " ", "c", "a", "t", "e", "g", "o", "r", "y", "I", "d", " ", "I",
      "n", "t", " ", "@", "u", "n", "i", "q", "u", "e", "\n", "}", "\n",
      "\n", "m", "o", "d", "e", "l", " ", "C", "a", "t", "e", "g", "o",
      "r", "y", " ", "{", "\n", " ", " ", "i", "d", " ", "I", "n", "t",
      " ", "@", "i", "d", "\n", "}", "\n">>

\* Category is not declared
Schema_PostOnly ==
    <<"m", "o", "d", "e", "l", " ", "P", "o", "s", "t", " ", "{", "\n",
      " ", " ", "i", "d", " ", "I", "n", "t", " ", "@", "i", "d", "\n",
      "}", "\n">>

\* neither Post nor Category is declared
Schema_TagOnly ==
    <<"m", "o", "d", "e", "l", " ", "T", "a", "g", " ", "{", "\n", " ",
      " ", "i", "d", " ", "I", "n", "t", " ", "@", "i", "d", "\n", "}",
      "\n">>

\* Post, Category and a third entity among a datasource block, enums and a
\* comment
Schema_Blog ==
    <<"d", "a", "t", "a", "s", "o", "u", "r", "c", "e", " ", "d", "b", " ",
      "{", "\n", " ", " ", "p", "r", "o", "v", "i", "d", "e", "r", " ",
      "=", " ", "\"", "p", "o", "s", "t", "g", "r", "e", "s", "q", "l",
      "\"", "\n", "}", "\n", "\n", "e", "n", "u", "m", " ", "R", "o", "l",
      "e", " ", "{", "\n", " ", " ", "U", "S", "E", "R", "\n", " ", " ",
      "A", "D", "M", "I", "N", "\n", "}", "\n", "\n", "/", "/", " ", "p",
      "o", "s", "t", "s", " ", "o", "f", " ", "t", "h", "e", " ", "b", "l",
      "o", "g", "\n", "m", "o", "d", "e", "l", " ", "P", "o", "s", "t",
      " ", "{", "\n", " ", " ", "i", "d", " ", "I", "n", "t", " ", "@",
      "i", "d", "\n", " ", " ", "t", "i", "t", "l", "e", " ", "S", "t",
      "r", "i", "n", "g", "\n", "}", "\n", "\n", "m", "o", "d", "e", "l",
      " ", "C", "a", "t", "e", "g", "o", "r", "y", " ", "{", "\n", " ",
      " ", "i", "d", " ", "I", "n", "t", " ", "@", "i", "d", "\n", "}",
      "\n", "\n", "m", "o", "d", "e", "l", " ", "T", "a", "g", " ", "{",
      "\n", " ", " ", "i", "d", " ", "I", "n", "t", " ", "@", "i", "d",
      "\n", "}", "\n", "\n", "e", "n", "u", "m", " ", "K", "i", "n", "d",
      " ", "{", "\n", " ", " ", "A", "\n", "}", "\n">>

\* number of times the mutator is called again on the text it returned
MaxCalls == 2

SchemaTexts ==
    {Schema_PostCategory, Schema_ForeignKey, Schema_PostOnly, Schema_TagOnly,
     Schema_Blog}

Connections ==
    {ConnectionInfo(sm, sf, tm, tf) :
        sm \in {Str_Post, Str_Category}, sf \in {Str_id, Str_title, Str_categoryId},
        tm \in {Str_Post, Str_Category}, tf \in {Str_id, Str_title}}

\* what the relation dialog hands over: nullable for 1-1 and 1-M, a junction
\* order for explicit M-M ("none" when the member is absent)
OptionsSpace ==
    {RelationOptions(t, m, "none", n) :
        t \in {"1-1", "1-M"}, m \in {"implicit", "explicit"}, n \in BOOLEAN}
    \cup {RelationOptions("M-M", "implicit", "none", FALSE)}
    \cup {RelationOptions("M-M", "explicit", o, FALSE) :
             o \in {"AonB", "BonA", "none"}}

MutateInit ==
    /\ text \in SchemaTexts
    /\ input = text
    /\ original = text
    /\ conn \in {c \in Connections : c.sourceModel # c.targetModel}
    /\ opts \in OptionsSpace
    /\ calls = 0

MutateIdle ==
    /\ text = <<>>
    /\ input = <<>>
    /\ original = <<>>
    /\ conn = ConnectionInfo(<<>>, <<>>, <<>>, <<>>)
    /\ opts = RelationOptions("1-1", "implicit", "none", FALSE)
    /\ calls = 0

\* one call of the mutator on the current text with the same connection and
\* options; the text it returns becomes the current text
ApplyMutator ==
    /\ calls < MaxCalls
    /\ text' = addRelationToSchema(text, conn, opts)
    /\ input' = text
    /\ calls' = calls + 1
    /\ UNCHANGED <<original, conn, opts>>
    /\ UNCHANGED nonMutateVars

(***************************************************************************)
(* Parser runs: the diagrams written out as text and the texts typed in    *)
(***************************************************************************)

Line_modelPost ==
    <<"m", "o", "d", "e", "l", " ", "P", "o", "s", "t", " ", "{">>
Line_id == <<" ", " ", "i", "d", " ", "I", "n", "t", " ", "@", "i", "d">>
Line_title ==
    <<" ", " ", "t", "i", "t", "l", "e", " ", "S", "t", "r", "i", "n", "g">>
Line_bioBraces ==
    <<" ", " ", "b", "i", "o", " ", "S", "t", "r", "i", "n", "g", " ", "@",
      "d", "e", "f", "a", "u", "l", "t", "(", "\"", "{", "}", "\"", ")">>
Line_bioCloseBrace ==
    <<" ", " ", "b", "i", "o", " ", "S", "t", "r", "i", "n", "g", " ", "@",
      "d", "e", "f", "a", "u", "l", "t", "(", "\"", "}", "\"", ")">>
Line_bioOpenBrace ==
    <<" ", " ", "b", "i", "o", " ", "S", "t", "r", "i", "n", "g", " ", "@",
      "d", "e", "f", "a", "u", "l", "t", "(", "\"", "{", "\"", ")">>
Line_malformed == <<" ", " ", "?", "?", "?">>
Line_commentBrace ==
    <<" ", " ", "s", "l", "u", "g", " ", "S", "t", "r", "i", "n", "g", " ",
      "/", "/", " ", "}">>
Line_commentModel ==
    <<" ", " ", "/", "/", " ", "m", "o", "d", "e", "l", " ", "D", "r", "a",
      "f", "t", " ", "{">>
Text_TagModel ==
    <<"\n", "\n", "m", "o", "d", "e", "l", " ", "T", "a", "g", " ", "{",
      "\n", " ", " ", "i", "d", " ", "I", "n", "t", " ", "@", "i", "d",
      "\n", "}", "\n">>
Str_Tag == <<"T", "a", "g">>
Str_String == <<"S", "t", "r", "i", "n", "g">>
Str_bio == <<"b", "i", "o">>
Str_slug == <<"s", "l", "u", "g">>
Str_post == <<"p", "o", "s", "t">>
Str_email == <<"e", "m", "a", "i", "l">>
Line_noteField == <<"n", "o", "t", "e", " ", "S", "t", "r", "i", "n", "g">>
Str_note == <<"n", "o", "t", "e">>
Str_written == <<"w", "r", "i", "t", "t", "e", "n">>
Str_postgresql == <<"p", "o", "s", "t", "g", "r", "e", "s", "q", "l">>
Str_prismaClient ==
    <<"p", "r", "i", "s", "m", "a", "-", "c", "l", "i", "e", "n", "t", "-",
      "j", "s">>
Str_envUrl == <<"e", "n", "v">>

\* the largest number of lines typed into the body of Post, and of fields
\* of the first node of a diagram
MaxBodyLines == 2
MaxNodeFields == 2

\* the lines a typed body is made of
BodyPalette ==
    {Line_id, Line_title, Line_bioBraces, Line_bioCloseBrace, Line_bioOpenBrace,
     Line_malformed, Line_commentBrace, Line_commentModel}

\* model Post with the typed lines, closed or left open, followed by model Tag
TypedText(lines, closed) ==
    Line_modelPost \o Str_Newline \o JoinLines(lines)
        \o (IF closed THEN Str_Newline \o Str_CloseBrace ELSE <<>>)
        \o Text_TagModel

TypedTexts ==
    {TypedText(lines, closed) :
        lines \in SeqsUpTo(BodyPalette, MaxBodyLines), closed \in BOOLEAN}

\* a field of a diagram node (schema-generator.ts: the data of a node)
NodeField(name, type, isOptional, isList, isId, isUnique, relationName) ==
    [name |-> name, type |-> type, isOptional |-> isOptional, isList |-> isList,
     isId |-> isId, isUnique |-> isUnique, relationName |-> relationName]

FieldPalette ==
    {NodeField(Str_id, Str_Int, FALSE, FALSE, TRUE, FALSE, <<>>),
     NodeField(Str_title, Str_String, TRUE, FALSE, FALSE, FALSE, <<>>),
     NodeField(Str_email, Str_String, FALSE, FALSE, FALSE, TRUE, <<>>),
     NodeField(Str_tags, Str_Tag, FALSE, TRUE, FALSE, FALSE, <<>>),
     NodeField(Str_post, Str_Post, TRUE, FALSE, FALSE, FALSE, Str_written),
     NodeField(Str_model, Str_String, FALSE, FALSE, FALSE, FALSE, <<>>)}

DiagramNode(modelName, fields) ==
    [id |-> modelName, data |-> [modelName |-> modelName, fields |-> fields]]

\* the second node of a diagram, when there is one
TagNodes ==
    {<<>>,
     <<DiagramNode(Str_Tag, <<NodeField(Str_id, Str_Int, FALSE, FALSE, TRUE, FALSE, <<>>)>>)>>,
     <<DiagramNode(Str_Tag, <<NodeField(Str_id, Str_Int, FALSE, FALSE, TRUE, FALSE, <<>>),
                             NodeField(Str_post, Str_Post, FALSE, FALSE, FALSE, FALSE, <<>>)>>)>>}

DiagramEdge(source, target, sourceHandle, targetHandle, relationType) ==
    [source |-> source, target |-> target, sourceHandle |-> sourceHandle,
     targetHandle |-> targetHandle, relationType |-> relationType]

\* no edge, or one edge whose handle is the field tags of Post
EdgeLists ==
    {<<>>,
     <<DiagramEdge(Str_Post, Str_Tag, Str_id, Str_tags, "1-M")>>,
     <<DiagramEdge(Str_Tag, Str_Post, Str_tags, Str_id, "M-M")>>}

Diagrams ==
    {[nodes |-> <<DiagramNode(Str_Post, fields)>> \o rest, edges |-> es,
      datasource |-> IF blocks THEN Block(Str_postgresql, Str_envUrl) ELSE Absent,
      generator |-> IF blocks THEN Block(Str_prismaClient, <<>>) ELSE Absent] :
        fields \in SeqsUpTo(FieldPalette, MaxNodeFields), rest \in TagNodes,
        es \in EdgeLists, blocks \in BOOLEAN}

EmptyDiagram == [nodes |-> <<>>, edges |-> <<>>, datasource |-> Absent, generator |-> Absent]

\* either a diagram waiting to be written out, or a text that was typed in
ParseInit ==
    \/ /\ diagram \in Diagrams
       /\ written = <<>>
       /\ parsed = <<>>
       /\ ppc = "diagram"
       /\ inserted = FALSE
    \/ /\ diagram = EmptyDiagram
       /\ written \in TypedTexts
       /\ parsed = <<>>
       /\ ppc = "text"
       /\ inserted = FALSE

ParseIdle ==
    /\ diagram = EmptyDiagram
    /\ written = <<>>
    /\ parsed = <<>>
    /\ ppc = "idle"
    /\ inserted = FALSE

\* the diagram is written out as schema text
Generate ==
    /\ ppc = "diagram"
    /\ written' = generatePrismaSchema(diagram.nodes, diagram.edges,
                                       diagram.datasource, diagram.generator)
    /\ ppc' = "text"
    /\ UNCHANGED <<diagram, parsed, inserted>>
    /\ UNCHANGED nonParseVars

\* the text is parsed
Parse ==
    /\ ppc = "text"
    /\ parsed' = parsePrismaSchema(written)
    /\ ppc' = "parsed"
    /\ UNCHANGED <<diagram, written, inserted>>
    /\ UNCHANGED nonParseVars

\* the mutator puts the field note into Post of a typed text, which is then
\* parsed like any other text
InsertField ==
    /\ ppc = "text"
    /\ diagram = EmptyDiagram
    /\ ~inserted
    /\ written' = addFieldToModel(written, Str_Post, Line_noteField, <<>>)
    /\ inserted' = TRUE
    /\ UNCHANGED <<diagram, parsed, ppc>>
    /\ UNCHANGED nonParseVars

(***************************************************************************)
(* The documents whose identity fields are named                           *)
(***************************************************************************)

\* relational fields in such a document, over both of its models
MaxKeyedRelFields == 2

\* the names of the field that carries @id
KeyNames == {Str_id, Str_slug}

\* "<name> Int @id" as the parser reports it
KeyField(name) ==
    PrismaField(name, Str_Int, FALSE, FALSE, <<Str_AtId>>,
                Relation(<<>>, <<>>, <<>>))

\* the fields of a model after its identity field: per shape the scalar
\* foreign key (when the relation has references, which name the identity
\* field of the other model) and the relational field
RECURSIVE KeyedShapeFields(_, _, _, _)
KeyedShapeFields(other, otherKey, shapes, k) ==
    IF k > Len(shapes) THEN <<>>
    ELSE LET sh == shapes[k]
             fk == SingularNames[k] \o Str_Id
             rel == PrismaField(
                        IF sh.isList THEN ListNames[k] ELSE SingularNames[k],
                        other,
                        FALSE, sh.isList, <<>>,
                        IF sh.hasRefs
                        THEN Relation(sh.name, <<fk>>, <<otherKey>>)
                        ELSE Relation(sh.name, <<>>, <<>>))
         IN (IF sh.hasRefs THEN <<ScalarField(fk)>> ELSE <<>>)
                \o <<rel>> \o KeyedShapeFields(other, otherKey, shapes, k + 1)

KeyedDocument(first, second, key1, key2, shapes1, shapes2) ==
    <<PrismaModel(first, <<KeyField(key1)>>
                             \o KeyedShapeFields(second, key2, shapes1, 1)),
      PrismaModel(second, <<KeyField(key2)>>
                              \o KeyedShapeFields(first, key1, shapes2, 1))>>

ConvertKeyedInit ==
    /\ \E order \in {<<Str_Post, Str_User>>, <<Str_User, Str_Post>>} :
         \E key1 \in KeyNames, key2 \in KeyNames :
           \E shapes1 \in SeqsUpTo(RelShapes, MaxKeyedRelFields) :
             \E shapes2 \in SeqsUpTo(RelShapes, MaxKeyedRelFields - Len(shapes1)) :
               schema = KeyedDocument(order[1], order[2], key1, key2,
                                      shapes1, shapes2)
    /\ nodes = NoDiagram
    /\ edges = NoDiagram
    /\ cpc = "parsed"

(***************************************************************************)
(* The schema store (store/schema-store.ts)                                *)
(***************************************************************************)

\* a schema file: name, content and the isMain flag
SchemaFile(name, content, isMain) ==
    [name |-> name, content |-> content, isMain |-> isMain]

Str_SeparatorOpen == <<"\n", "/", "/", " ", "=", "=", "=", " ">>
Str_SeparatorClose == <<" ", "=", "=", "=", "\n">>
Str_PartsJoin == <<"\n", "\n">>
Str_schemaPrisma ==
    <<"s", "c", "h", "e", "m", "a", ".", "p", "r", "i", "s", "m", "a">>
Str_tagsPrisma == <<"t", "a", "g", "s", ".", "p", "r", "i", "s", "m", "a">>

\* parts.push(`\n// === ${file.name} ===\n${file.content}`)
SeparatedPart(file) ==
    Str_SeparatorOpen \o file.name \o Str_SeparatorClose \o file.content

\* parts.join("\n\n")
RECURSIVE JoinParts(_)
JoinParts(parts) ==
    IF parts = <<>> THEN <<>>
    ELSE IF Len(parts) = 1 THEN parts[1]
    ELSE parts[1] \o Str_PartsJoin \o JoinParts(Tail(parts))

\* getMergedSchema: the content of the first main file, then one separated
\* part for each other file whose trimmed content is not empty
getMergedSchema(files) ==
    LET IsMain(f) == f.isMain
        IsOtherPart(f) == ~f.isMain /\ Trim(f.content) # <<>>
        mains == SelectSeq(files, IsMain)
        otherFiles == SelectSeq(files, IsOtherPart)
    IN JoinParts((IF mains = <<>> THEN <<>> ELSE <<mains[1].content>>)
                 \o [i \in 1..Len(otherFiles) |-> SeparatedPart(otherFiles[i])])

\* activeFileId: null, or the name of a file
NullFileId == [isNull |-> TRUE, name |-> <<>>]
FileId(name) == [isNull |-> FALSE, name |-> name]

\* files[0]?.name || null
FirstNameOrNull(files) ==
    IF files = <<>> \/ files[1].name = <<>> THEN NullFileId
    ELSE FileId(files[1].name)

defaultSchemaContent ==
    <<"g", "e", "n", "e", "r", "a", "t", "o", "r", " ", "c", "l", "i", "e",
      "n", "t", " ", "{", "\n", " ", " ", "p", "r", "o", "v", "i", "d",
      "e", "r", " ", "=", " ", "\"", "p", "r", "i", "s", "m", "a", "-",
      "c", "l", "i", "e", "n", "t", "-", "j", "s", "\"", "\n", "}", "\n",
      "\n", "d", "a", "t", "a", "s", "o", "u", "r", "c", "e", " ", "d",
      "b", " ", "{", "\n", " ", " ", "p", "r", "o", "v", "i", "d", "e",
      "r", " ", "=", " ", "\"", "p", "o", "s", "t", "g", "r", "e", "s",
      "q", "l", "\"", "\n", " ", " ", "u", "r", "l", " ", " ", " ", " ",
      " ", " ", "=", " ", "e", "n", "v", "(", "\"", "D", "A", "T", "A",
      "B", "A", "S", "E", "_", "U", "R", "L", "\"", ")", "\n", "}", "\n",
      "\n", "m", "o", "d", "e", "l", " ", "U", "s", "e", "r", " ", "{",
      "\n", " ", " ", "i", "d", " ", " ", " ", " ", " ", " ", " ", " ",
      "I", "n", "t", " ", " ", " ", " ", " ", " ", "@", "i", "d", " ", "@",
      "d", "e", "f", "a", "u", "l", "t", "(", "a", "u", "t", "o", "i", "n",
      "c", "r", "e", "m", "e", "n", "t", "(", ")", ")", "\n", " ", " ",
      "e", "m", "a", "i", "l", " ", " ", " ", " ", " ", "S", "t", "r", "i",
      "n", "g", " ", " ", " ", "@", "u", "n", "i", "q", "u", "e", "\n",
      " ", " ", "n", "a", "m", "e", " ", " ", " ", " ", " ", " ", "S", "t",
      "r", "i", "n", "g", "?", "\n", " ", " ", "p", "o", "s", "t", "s",
      " ", " ", " ", " ", " ", "P", "o", "s", "t", "[", "]", "\n", " ",
      " ", "c", "r", "e", "a", "t", "e", "d", "A", "t", " ", "D", "a", "t",
      "e", "T", "i", "m", "e", " ", "@", "d", "e", "f", "a", "u", "l", "t",
      "(", "n", "o", "w", "(", ")", ")", "\n", "}", "\n", "\n", "m", "o",
      "d", "e", "l", " ", "P", "o", "s", "t", " ", "{", "\n", " ", " ",
      "i", "d", " ", " ", " ", " ", " ", " ", " ", " ", "I", "n", "t", " ",
      " ", " ", " ", " ", " ", "@", "i", "d", " ", "@", "d", "e", "f", "a",
      "u", "l", "t", "(", "a", "u", "t", "o", "i", "n", "c", "r", "e", "m",
      "e", "n", "t", "(", ")", ")", "\n", " ", " ", "t", "i", "t", "l",
      "e", " ", " ", " ", " ", " ", "S", "t", "r", "i", "n", "g", "\n",
      " ", " ", "c", "o", "n", "t", "e", "n", "t", " ", " ", " ", "S", "t",
      "r", "i", "n", "g", "?", "\n", " ", " ", "p", "u", "b", "l", "i",
      "s", "h", "e", "d", " ", "B", "o", "o", "l", "e", "a", "n", " ", " ",
      "@", "d", "e", "f", "a", "u", "l", "t", "(", "f", "a", "l", "s", "e",
      ")", "\n", " ", " ", "a", "u", "t", "h", "o", "r", "I", "d", " ",
      " ", "I", "n", "t", "\n", " ", " ", "a", "u", "t", "h", "o", "r",
      " ", " ", " ", " ", "U", "s", "e", "r", " ", " ", " ", " ", " ", "@",
      "r", "e", "l", "a", "t", "i", "o", "n", "(", "f", "i", "e", "l", "d",
      "s", ":", " ", "[", "a", "u", "t", "h", "o", "r", "I", "d", "]", ",",
      " ", "r", "e", "f", "e", "r", "e", "n", "c", "e", "s", ":", " ", "[",
      "i", "d", "]", ")", "\n", " ", " ", "c", "r", "e", "a", "t", "e",
      "d", "A", "t", " ", " ", "D", "a", "t", "e", "T", "i", "m", "e", " ",
      "@", "d", "e", "f", "a", "u", "l", "t", "(", "n", "o", "w", "(", ")",
      ")", "\n", "}">>

Str_postsPrisma ==
    <<"p", "o", "s", "t", "s", ".", "p", "r", "i", "s", "m", "a">>
Str_DotPrisma == <<".", "p", "r", "i", "s", "m", "a">>
Text_Blank == <<" ", " ", "\n">>
Text_TagCommented ==
    <<"/", "/", " ", "t", "a", "g", "s", " ", "o", "f", " ", "t", "h", "e",
      " ", "b", "l", "o", "g", "\n", "m", "o", "d", "e", "l", " ", "T",
      "a", "g", " ", "{", "\n", " ", " ", "i", "d", " ", "I", "n", "t",
      " ", "@", "i", "d", " ", "/", "/", " ", "k", "e", "y", "\n", " ",
      " ", "/", "/", " ", "=", "=", "=", " ", "l", "e", "g", "a", "c", "y",
      " ", "=", "=", "=", "\n", " ", " ", "n", "a", "m", "e", " ", "S",
      "t", "r", "i", "n", "g", "\n", "}", "\n">>
Text_PostOpenLiteral ==
    <<"m", "o", "d", "e", "l", " ", "P", "o", "s", "t", " ", "{", "\n",
      " ", " ", "i", "d", " ", "I", "n", "t", " ", "@", "i", "d", "\n",
      " ", " ", "b", "i", "o", " ", "S", "t", "r", "i", "n", "g", " ", "@",
      "d", "e", "f", "a", "u", "l", "t", "(", "\"", "{", "\"", ")", "\n",
      "}", "\n">>
Text_KindCloseLiteral ==
    <<"m", "o", "d", "e", "l", " ", "K", "i", "n", "d", " ", "{", "\n",
      " ", " ", "i", "d", " ", "I", "n", "t", " ", "@", "i", "d", "\n",
      " ", " ", "s", "y", "m", " ", "S", "t", "r", "i", "n", "g", " ", "@",
      "d", "e", "f", "a", "u", "l", "t", "(", "\"", "}", "\"", ")", "\n",
      "}", "\n">>

\* the largest number of calls on the store, and of files in one import
MaxStoreCalls == 3
MaxImport == 2

\* the names files are given, and the contents updateSchemaFile is given
StoreNames == {Str_schemaPrisma, Str_tagsPrisma, Str_postsPrisma}
StoreContents == {Text_Blank, Schema_TagOnly}

\* the lists of files handed to importSchemas: a file whose name is taken
\* in the initial store, and a file flagged as main or not
ImportFiles ==
    SeqsUpTo({SchemaFile(Str_schemaPrisma, Schema_TagOnly, FALSE),
              SchemaFile(Str_tagsPrisma, Schema_TagOnly, FALSE),
              SchemaFile(Str_tagsPrisma, Schema_TagOnly, TRUE)},
             MaxImport)

\* the contents of the files that are merged
MergeContents ==
    {<<>>, Text_Blank, Schema_TagOnly, Text_TagCommented, Text_PostOpenLiteral,
     Text_KindCloseLiteral}

\* the files that are merged: a main file and up to two other files
MergeFiles ==
    {<<SchemaFile(Str_schemaPrisma, main, TRUE)>> \o others :
         main \in MergeContents \cup {defaultSchemaContent},
         others \in {<<>>}
             \cup {<<SchemaFile(Str_tagsPrisma, tags, FALSE)>> :
                       tags \in MergeContents}
             \cup {<<SchemaFile(Str_tagsPrisma, tags, FALSE),
                      SchemaFile(Str_postsPrisma, posts, FALSE)>> :
                       tags \in MergeContents, posts \in MergeContents}}

\* a call on the store and its arguments
StoreCall(op, fileId, newName, files, replace) ==
    [op |-> op, fileId |-> fileId, newName |-> newName, files |-> files,
     replace |-> replace]

\* state.schemaFiles.find((f) => f.name === fileId): the files of that name
FilesNamed(files, fileId) ==
    LET HasName(f) == f.name = fileId IN SelectSeq(files, HasName)

\* the store as create() builds it
StoreInit ==
    /\ schemaFiles = <<SchemaFile(Str_schemaPrisma, defaultSchemaContent, TRUE)>>
    /\ activeFileId = FileId(Str_schemaPrisma)
    /\ storeCall = StoreCall("init", <<>>, <<>>, <<>>, FALSE)
    /\ storeParsed = <<>>
    /\ imported = FALSE
    /\ storeCalls = 0

\* a store that holds files to merge (set by setSchemaFiles or loadSchema)
MergeInit ==
    /\ schemaFiles \in MergeFiles
    /\ activeFileId = FileId(Str_schemaPrisma)
    /\ storeCall = StoreCall("init", <<>>, <<>>, <<>>, FALSE)
    /\ storeParsed = <<>>
    /\ imported = FALSE
    /\ storeCalls = 0

\* the state of the store's variables while another component runs
StoreIdle ==
    /\ schemaFiles = <<>>
    /\ activeFileId = NullFileId
    /\ storeCall = StoreCall("init", <<>>, <<>>, <<>>, FALSE)
    /\ storeParsed = <<>>
    /\ imported = FALSE
    /\ storeCalls = 0

\* what every call on the store records
Called(call) ==
    /\ storeCalls < MaxStoreCalls
    /\ storeCalls' = storeCalls + 1
    /\ storeCall' = call
    /\ UNCHANGED nonStoreVars

\* addSchemaFile(file): the file explorer adds an empty file that is not main
addSchemaFile ==
    \E name \in StoreNames :
        /\ Called(StoreCall("add", name, <<>>, <<>>, FALSE))
        /\ schemaFiles' = Append(schemaFiles, SchemaFile(name, <<>>, FALSE))
        /\ activeFileId' = FileId(name)
        /\ UNCHANGED <<storeParsed, imported>>

\* updateSchemaFile(fileId, content)
updateSchemaFile ==
    \E fileId \in StoreNames, content \in StoreContents :
        /\ Called(StoreCall("update", fileId, <<>>, <<>>, FALSE))
        /\ schemaFiles' =
               [i \in 1..Len(schemaFiles) |->
                   IF schemaFiles[i].name = fileId
                   THEN [schemaFiles[i] EXCEPT !.content = content]
                   ELSE schemaFiles[i]]
        /\ UNCHANGED <<activeFileId, storeParsed, imported>>

\* the files deleteSchemaFile leaves: state.schemaFiles.filter(...)
FilesWithout(files, fileId) ==
    LET OtherName(f) == f.name # fileId IN SelectSeq(files, OtherName)

\* deleteSchemaFile without the test for the main file
deleteSchemaFile_AnyFile ==
    \E fileId \in StoreNames :
        /\ Called(StoreCall("delete", fileId, <<>>, <<>>, FALSE))
        /\ schemaFiles' = FilesWithout(schemaFiles, fileId)
        /\ activeFileId' =
               IF activeFileId = FileId(fileId)
               THEN FirstNameOrNull(FilesWithout(schemaFiles, fileId))
               ELSE activeFileId
        /\ UNCHANGED <<storeParsed, imported>>

\* deleteSchemaFile(fileId)
deleteSchemaFile ==
    \E fileId \in StoreNames :
        /\ Called(StoreCall("delete", fileId, <<>>, <<>>, FALSE))
        /\ IF (FilesNamed(schemaFiles, fileId) # <<>>
               /\ FilesNamed(schemaFiles, fileId)[1].isMain)
           THEN UNCHANGED <<schemaFiles, activeFileId>>
           ELSE /\ schemaFiles' = FilesWithout(schemaFiles, fileId)
                /\ activeFileId' =
                       IF activeFileId = FileId(fileId)
                       THEN FirstNameOrNull(FilesWithout(schemaFiles, fileId))
                       ELSE activeFileId
        /\ UNCHANGED <<storeParsed, imported>>

\* renameSchemaFile(fileId, newName)
renameSchemaFile ==
    \E fileId \in StoreNames, newName \in StoreNames :
        /\ Called(StoreCall("rename", fileId, newName, <<>>, FALSE))
        /\ IF (FilesNamed(schemaFiles, fileId) = <<>>
               \/ \E i \in 1..Len(schemaFiles) :
                      (schemaFiles[i].name = newName
                          /\ schemaFiles[i].name # fileId))
           THEN UNCHANGED <<schemaFiles, activeFileId>>
           ELSE /\ schemaFiles' =
                       [i \in 1..Len(schemaFiles) |->
                           IF schemaFiles[i].name = fileId
                           THEN [schemaFiles[i] EXCEPT !.name = newName]
                           ELSE schemaFiles[i]]
                /\ activeFileId' =
                       IF activeFileId = FileId(fileId) THEN FileId(newName)
                       ELSE activeFileId
        /\ UNCHANGED <<storeParsed, imported>>

\* files.map((f, i) => ({ ...f, isMain: i === 0 && !files.some(f2 => f2.isMain) }))
FilesWithMain(files) ==
    [i \in 1..Len(files) |->
        [files[i] EXCEPT
            !.isMain = (i = 1 /\ ~\E j \in 1..Len(files) : files[j].isMain)]]

\* file.name.replace(/\.prisma$/, "")
NameWithoutExt(name) ==
    IF EndsWith(name, Str_DotPrisma)
    THEN SubSeq(name, 1, Len(name) - Len(Str_DotPrisma))
    ELSE name

\* String(counter) for the counters the loop reaches
CounterText(counter) ==
    <<<<"0", "1", "2", "3", "4", "5", "6", "7", "8", "9">>[counter + 1]>>

\* the while loop of importSchemas: the first of file.name,
\* `${nameWithoutExt}_${counter}.prisma` for counter = 1, 2, ... that is not
\* in existingNames
RECURSIVE FinalName(_, _, _, _)
FinalName(existingNames, name, finalName, counter) ==
    IF finalName \in existingNames
    THEN FinalName(existingNames, name,
                   NameWithoutExt(name) \o <<"_">> \o CounterText(counter)
                       \o Str_DotPrisma,
                   counter + 1)
    ELSE finalName

\* files.forEach of the merge branch: newFiles
RECURSIVE NewFiles(_, _)
NewFiles(existingNames, files) ==
    IF files = <<>> THEN <<>>
    ELSE <<SchemaFile(FinalName(existingNames, files[1].name, files[1].name, 1),
                      files[1].content, FALSE)>>
         \o NewFiles(existingNames
                         \cup {FinalName(existingNames, files[1].name,
                                         files[1].name, 1)},
                     Tail(files))

\* the names of the files
FileNames(files) == {files[i].name : i \in 1..Len(files)}

\* importSchemas(files, replace); saveSchema writes to localStorage only
importSchemas ==
    \E files \in ImportFiles, replace \in BOOLEAN :
        /\ Called(StoreCall("import", <<>>, <<>>, files, replace))
        /\ IF replace
           THEN /\ schemaFiles' = FilesWithMain(files)
                /\ activeFileId' = FirstNameOrNull(FilesWithMain(files))
           ELSE /\ schemaFiles' =
                       schemaFiles \o NewFiles(FileNames(schemaFiles), files)
                /\ activeFileId' =
                       IF files = <<>> THEN activeFileId
                       ELSE FirstNameOrNull(NewFiles(FileNames(schemaFiles), files))
        /\ imported' = TRUE
        /\ UNCHANGED storeParsed

\* parsePrismaSchema(getMergedSchema()), as the parse effects call it
parseMergedSchema ==
    /\ storeCall.op # "parse"
    /\ Called(StoreCall("parse", <<>>, <<>>, <<>>, FALSE))
    /\ storeParsed' = parsePrismaSchema(getMergedSchema(schemaFiles))
    /\ UNCHANGED <<schemaFiles, activeFileId, imported>>


(***************************************************************************)
(* The editor: the parse effects of split-editor.tsx and the schema effect *)
(* of diagram-canvas.tsx                                                   *)
(***************************************************************************)

\* the largest number of changes of the schema files
MaxEdits == 3

\* parsedSchema: null
NullSchema == [isNull |-> TRUE, models |-> <<>>]

\* a document the parser returned
ParsedSchema(models) == [isNull |-> FALSE, models |-> models]

\* error: null, and the message of the TypeError of file.content.trim()
NoError == "null"
TrimOfUndefined == "Cannot read properties of undefined (reading 'trim')"

\* a second schema file: none, or one whose content is undefined
NoFile == "no file"
Undefined == "undefined"

\* a second schema file tags.prisma that declares the model Tag
TagsFile == "tags.prisma"

\* the contents a second schema file takes
OtherContents == {NoFile, Undefined, TagsFile}

\* schemaFiles: the main file, followed by the second file when there is one
EditorFiles(main, other) ==
    <<SchemaFile(Str_schemaPrisma, main, TRUE)>>
    \o (IF other = TagsFile
        THEN <<SchemaFile(Str_tagsPrisma, Schema_TagOnly, FALSE)>>
        ELSE <<>>)

\* getMergedSchema throws: otherFiles.forEach reads file.content.trim()
MergeThrows(other) == other = Undefined

\* getMergedSchema() on the files of the store
MergedSchema(main, other) == getMergedSchema(EditorFiles(main, other))

\* the texts of the main file
EditorTexts == {<<>>, Schema_PostOnly, Schema_PostCategory, Schema_ForeignKey}

\* the state of the editor's variables while another component runs
EditorIdle ==
    /\ mainContent = <<>>
    /\ otherContent = NoFile
    /\ parsedSchema = NullSchema
    /\ error = NoError
    /\ updateTimeout = FALSE
    /\ schemaChanged = FALSE
    /\ canvasNodes = <<>>
    /\ canvasEdges = <<>>
    /\ lastParsed = NullSchema
    /\ edits = 0
    /\ isUpdatingFromDiagram = FALSE

\* after the first render: the store holds no document and no error, the
\* canvas is empty, the debounced parse effect has armed its timer and the
\* schema effect has run on the null document
EditorInit ==
    /\ mainContent \in EditorTexts
    /\ otherContent \in OtherContents
    /\ parsedSchema = NullSchema
    /\ error = NoError
    /\ updateTimeout = TRUE
    /\ schemaChanged = FALSE
    /\ canvasNodes = <<>>
    /\ canvasEdges = <<>>
    /\ lastParsed = NullSchema
    /\ edits = 0
    /\ isUpdatingFromDiagram = FALSE

\* the try block of a parse: setParsedSchema(parsed); setError(null)
ParseReturned(models) ==
    /\ parsedSchema' = ParsedSchema(models)
    /\ error' = NoError
    /\ lastParsed' = ParsedSchema(models)
    /\ schemaChanged' = TRUE

\* the catch block of the parse effects: setError(message);
\* setParsedSchema(null).  The schema effect runs when the prop changes.
ParseThrew ==
    /\ error' = TrimOfUndefined
    /\ parsedSchema' = NullSchema
    /\ schemaChanged' = (schemaChanged \/ parsedSchema # NullSchema)
    /\ UNCHANGED lastParsed

\* the catch block of onSchemaUpdate: setError(message) only
UpdateThrew ==
    /\ error' = TrimOfUndefined
    /\ UNCHANGED <<parsedSchema, schemaChanged, lastParsed>>

\* the body of the debounced parse effect, run when schemaFiles changed:
\* clearTimeout of the pending timer; return when isUpdatingFromDiagramRef
\* is set; otherwise setTimeout of a new one
ParseEffect == updateTimeout' = ~isUpdatingFromDiagram

\* handleEditorChange: typing in the main file; it returns at once while
\* isUpdatingFromDiagramRef is set, else updateSchemaFile changes the files
handleEditorChange ==
    /\ edits < MaxEdits
    /\ ~isUpdatingFromDiagram
    /\ \E value \in EditorTexts \ {mainContent} : mainContent' = value
    /\ ParseEffect
    /\ edits' = edits + 1
    /\ UNCHANGED <<otherContent, parsedSchema, error, schemaChanged, canvasNodes,
                   canvasEdges, lastParsed, isUpdatingFromDiagram>>
    /\ UNCHANGED hvars
    /\ UNCHANGED nonEditorVars

\* the schema files change from the file explorer (a file added or deleted,
\* an import, a load): the debounced parse effect runs
ChangeFiles ==
    /\ edits < MaxEdits
    /\ \E main \in EditorTexts, other \in OtherContents :
           /\ other # otherContent
           /\ mainContent' = main
           /\ otherContent' = other
    /\ ParseEffect
    /\ edits' = edits + 1
    /\ UNCHANGED <<parsedSchema, error, schemaChanged, canvasNodes, canvasEdges,
                   lastParsed, isUpdatingFromDiagram>>
    /\ UNCHANGED hvars
    /\ UNCHANGED nonEditorVars

\* the callback of the timer of the debounced parse effect
DebouncedParse ==
    /\ updateTimeout
    /\ updateTimeout' = FALSE
    /\ IF MergeThrows(otherContent)
       THEN ParseThrew
       ELSE ParseReturned(parsePrismaSchema(MergedSchema(mainContent, otherContent)))
    /\ UNCHANGED <<mainContent, otherContent, canvasNodes, canvasEdges, edits,
                   isUpdatingFromDiagram>>
    /\ UNCHANGED hvars
    /\ UNCHANGED nonEditorVars

\* onSchemaUpdate: the diagram hands over an updated text of the main file.
\* isUpdatingFromDiagramRef is set, so the debounced parse effect clears the
\* pending timer and arms none, and the text is parsed at once.
SchemaUpdate ==
    /\ edits < MaxEdits
    /\ canvasNodes # <<>>
    /\ \E updatedSchema \in EditorTexts \ {mainContent} :
           /\ mainContent' = updatedSchema
           /\ IF MergeThrows(otherContent)
              THEN UpdateThrew
              ELSE ParseReturned(parsePrismaSchema(
                                     MergedSchema(updatedSchema, otherContent)))
    /\ isUpdatingFromDiagram' = TRUE
    /\ updateTimeout' = FALSE
    /\ edits' = edits + 1
    /\ UNCHANGED <<otherContent, canvasNodes, canvasEdges>>
    /\ UNCHANGED hvars
    /\ UNCHANGED nonEditorVars

\* the callback of the 200 ms timer of onSchemaUpdate:
\* isUpdatingFromDiagramRef.current = false
ResetUpdatingFlag ==
    /\ isUpdatingFromDiagram
    /\ isUpdatingFromDiagram' = FALSE
    /\ UNCHANGED <<mainContent, otherContent, parsedSchema, error, updateTimeout,
                   schemaChanged, canvasNodes, canvasEdges, lastParsed, edits>>
    /\ UNCHANGED hvars
    /\ UNCHANGED nonEditorVars

\* historyRef.current.pushToHistory(layoutedNodes, layoutedEdges) inside the
\* schema effect: the step pushToHistory takes on the history
PushedByEffect ==
    /\ LET trimmedHistory == SubSeq(history, 1, historyIndex + 1) \o <<stamp + 1>>
       IN IF Len(trimmedHistory) > HistoryLimit
          THEN /\ history' = Tail(trimmedHistory)
               /\ historyIndex' = Len(Tail(trimmedHistory)) - 1
               /\ shifted' = TRUE
          ELSE /\ history' = trimmedHistory
               /\ historyIndex' = Len(trimmedHistory) - 1
               /\ shifted' = FALSE
    /\ before' = Current
    /\ prevOp' = lastOp
    /\ prevRet' = ret
    /\ stamp' = stamp + 1
    /\ lastOp' = "push"
    /\ ret' = NullState
    /\ UNCHANGED undos

\* the if branch of the schema effect for the converted document
ShowDiagram(out) ==
    /\ canvasNodes' = out.nodes
    /\ canvasEdges' = out.edges
    /\ PushedByEffect

\* the schema effect of the canvas; getLayoutedElements only sets positions,
\* which are left as the converter set them
SchemaEffect ==
    /\ schemaChanged
    /\ schemaChanged' = FALSE
    /\ IF ~parsedSchema.isNull /\ Len(parsedSchema.models) > 0
       THEN ShowDiagram(convertSchemaToNodesAndEdges(parsedSchema.models))
       ELSE /\ canvasNodes' = <<>>
            /\ canvasEdges' = <<>>
            /\ UNCHANGED hvars
    /\ UNCHANGED <<mainContent, otherContent, parsedSchema, error, updateTimeout,
                   lastParsed, edits, isUpdatingFromDiagram>>
    /\ UNCHANGED nonEditorVars

(***************************************************************************)
(* The canvas: the debounced history save and the undo and redo keys of    *)
(* diagram-canvas.tsx                                                      *)
(***************************************************************************)

\* the diagrams the canvas shows are numbered from 1; 0 is the canvas
\* without nodes
MaxShown == 2

\* pushes of the canvas onto its history
MaxSaves == 3

NoNodes == 0

CanvasStates == 1..MaxShown

\* the state of the canvas's variables while another component runs
CanvasIdle ==
    /\ shown = NoNodes
    /\ lastSave = NullState
    /\ saveTimeout = FALSE
    /\ canvasOp = "init"
    /\ prevCanvasOp = "init"

\* useNodesState([]), useEdgesState([]), lastSaveRef = null, saveTimeoutRef =
\* null, history = [], historyIndex = -1
CanvasInit ==
    /\ CanvasIdle
    /\ CanvasHistoryInit
    /\ ret = NullState
    /\ lastOp = "init"
    /\ prevOp = "init"
    /\ prevRet = NullState
    /\ before = NullState
    /\ shifted = FALSE
    /\ stamp = 0
    /\ undos = 0

\* historyRef.current.pushToHistory(nodes, edges) for the diagram state
PushState(state) ==
    /\ LET trimmedHistory == SubSeq(history, 1, historyIndex + 1) \o <<state>>
       IN IF Len(trimmedHistory) > HistoryLimit
          THEN /\ history' = Tail(trimmedHistory)
               /\ historyIndex' = Len(Tail(trimmedHistory)) - 1
               /\ shifted' = TRUE
          ELSE /\ history' = trimmedHistory
               /\ historyIndex' = Len(trimmedHistory) - 1
               /\ shifted' = FALSE
    /\ before' = Current
    /\ prevOp' = lastOp
    /\ prevRet' = ret
    /\ stamp' = stamp + 1
    /\ lastOp' = "push"
    /\ ret' = NullState
    /\ UNCHANGED undos

\* the history save effect, run when nodes or edges changed: its cleanup
\* clears the pending timer, and saveToHistory arms a new one when there are
\* nodes
SaveEffect == saveTimeout' = (shown' # NoNodes)

\* what every step of the canvas records
CanvasStep(op) ==
    /\ canvasOp' = op
    /\ prevCanvasOp' = canvasOp

\* the schema effect: the converted and laid out diagram is shown, becomes
\* the last saved state and is pushed; a schema without models clears the
\* canvas
CanvasSchemaEffect ==
    /\ \E state \in {NoNodes} \cup CanvasStates :
          /\ shown' = state
          /\ IF state # NoNodes
             THEN /\ stamp < MaxSaves
                  /\ lastSave' = state
                  /\ PushState(state)
             ELSE /\ lastSave' = NullState
                  /\ UNCHANGED hvars
    /\ SaveEffect
    /\ CanvasStep("schema")
    /\ UNCHANGED nonCanvasVars

\* onNodesChange, onEdgesChange: a node is dragged, selected or removed
CanvasChange ==
    /\ \E state \in ({NoNodes} \cup CanvasStates) \ {shown} : shown' = state
    /\ SaveEffect
    /\ CanvasStep("change")
    /\ UNCHANGED <<lastSave>>
    /\ UNCHANGED hvars
    /\ UNCHANGED nonCanvasVars

\* the debounced save that compares nodes and edges with no saved state
SaveTimer_AlwaysPush ==
    /\ saveTimeout
    /\ saveTimeout' = FALSE
    /\ IF shown # NoNodes
       THEN /\ stamp < MaxSaves
            /\ PushState(shown)
            /\ lastSave' = shown
       ELSE UNCHANGED <<hvars, lastSave>>
    /\ CanvasStep("save")
    /\ UNCHANGED shown
    /\ UNCHANGED nonCanvasVars

\* the callback of the 300 ms timer of saveToHistory
SaveTimer ==
    /\ saveTimeout
    /\ saveTimeout' = FALSE
    /\ IF shown # NoNodes /\ shown # lastSave
       THEN /\ stamp < MaxSaves
            /\ PushState(shown)
            /\ lastSave' = shown
       ELSE UNCHANGED <<hvars, lastSave>>
    /\ CanvasStep("save")
    /\ UNCHANGED shown
    /\ UNCHANGED nonCanvasVars

\* what handleKeyDown does with the state undo() or redo() returned
Restore(state) ==
    IF state # NullState
    THEN /\ shown' = state
         /\ lastSave' = state
         /\ SaveEffect
    ELSE UNCHANGED <<shown, lastSave, saveTimeout>>

\* handleKeyDown: Ctrl+Z
CanvasUndo ==
    /\ IF historyIndex > 0
       THEN /\ historyIndex' = historyIndex - 1
            /\ ret' = history[historyIndex' + 1]
       ELSE /\ ret' = NullState
            /\ UNCHANGED historyIndex
    /\ before' = Current
    /\ prevOp' = lastOp
    /\ prevRet' = ret
    /\ lastOp' = "undo"
    /\ Restore(ret')
    /\ CanvasStep("undo")
    /\ UNCHANGED <<history, shifted, stamp, undos>>
    /\ UNCHANGED nonCanvasVars

\* handleKeyDown: Ctrl+Shift+Z or Ctrl+Y
CanvasRedo ==
    /\ IF historyIndex < Len(history) - 1
       THEN /\ historyIndex' = historyIndex + 1
            /\ ret' = history[historyIndex' + 1]
       ELSE /\ ret' = NullState
            /\ UNCHANGED historyIndex
    /\ before' = Current
    /\ prevOp' = lastOp
    /\ prevRet' = ret
    /\ lastOp' = "redo"
    /\ Restore(ret')
    /\ CanvasStep("redo")
    /\ UNCHANGED <<history, shifted, stamp, undos>>
    /\ UNCHANGED nonCanvasVars

(***************************************************************************)
(* Specifications                                                          *)
(***************************************************************************)

InitHistory ==
    HistoryInit /\ ConvertIdle /\ MutateIdle /\ ParseIdle /\ EditorIdle
        /\ StoreIdle /\ CanvasIdle

HistoryNext == pushToHistory \/ undo \/ redo

SpecHistory == InitHistory /\ [][HistoryNext]_vars

InitConvert ==
    ConvertInit /\ HistoryIdle /\ MutateIdle /\ ParseIdle /\ EditorIdle
        /\ StoreIdle /\ CanvasIdle

ConvertNext == Convert

SpecConvert == InitConvert /\ [][ConvertNext]_vars

InitConvertKeyed ==
    ConvertKeyedInit /\ HistoryIdle /\ MutateIdle /\ ParseIdle /\ EditorIdle
        /\ StoreIdle /\ CanvasIdle

SpecConvertKeyed == InitConvertKeyed /\ [][ConvertNext]_vars

InitMutate ==
    MutateInit /\ HistoryIdle /\ ConvertIdle /\ ParseIdle /\ EditorIdle
        /\ StoreIdle /\ CanvasIdle

MutateNext == ApplyMutator

SpecMutate == InitMutate /\ [][MutateNext]_vars

InitParse ==
    ParseInit /\ HistoryIdle /\ ConvertIdle /\ MutateIdle /\ EditorIdle
        /\ StoreIdle /\ CanvasIdle

ParseNext == Generate \/ InsertField \/ Parse

SpecParse == InitParse /\ [][ParseNext]_vars

InitEditor ==
    EditorInit /\ HistoryIdle /\ ConvertIdle /\ MutateIdle /\ ParseIdle
        /\ StoreIdle /\ CanvasIdle

EditorNext ==
    \/ handleEditorChange
    \/ ChangeFiles
    \/ DebouncedParse
    \/ SchemaUpdate
    \/ ResetUpdatingFlag
    \/ SchemaEffect

SpecEditor == InitEditor /\ [][EditorNext]_vars

\* the timers of the editor fire and the effects of a render run: a pending
\* callback is not postponed for ever.  The timer of the debounced parse is
\* pending exactly when updateTimeout holds, which is written out as the
\* enabling condition of its callback.
EditorFairness ==
    /\ []<>(~updateTimeout) \/ []<><<DebouncedParse>>_vars
    /\ WF_vars(ResetUpdatingFlag)
    /\ WF_vars(SchemaEffect)

SpecEditorFair == InitEditor /\ [][EditorNext]_vars /\ EditorFairness

InitStore ==
    StoreInit /\ HistoryIdle /\ ConvertIdle /\ MutateIdle /\ ParseIdle
        /\ EditorIdle /\ CanvasIdle

StoreNext ==
    \/ addSchemaFile
    \/ updateSchemaFile
    \/ deleteSchemaFile
    \/ renameSchemaFile
    \/ importSchemas

SpecStore == InitStore /\ [][StoreNext]_vars

InitMerge ==
    MergeInit /\ HistoryIdle /\ ConvertIdle /\ MutateIdle /\ ParseIdle
        /\ EditorIdle /\ CanvasIdle

MergeNext == parseMergedSchema

SpecMerge == InitMerge /\ [][MergeNext]_vars

InitCanvas ==
    CanvasInit /\ ConvertIdle /\ MutateIdle /\ ParseIdle /\ EditorIdle
        /\ StoreIdle

CanvasNext ==
    \/ CanvasSchemaEffect
    \/ CanvasChange
    \/ SaveTimer
    \/ CanvasUndo
    \/ CanvasRedo

SpecCanvas == InitCanvas /\ [][CanvasNext]_vars

(***************************************************************************)
(* Claims about the history buffer                                         *)
(***************************************************************************)

\* a non-stuttering step that leaves lastOp = op is a step of that operation
PushStep == lastOp' = "push"
UndoStep == lastOp' = "undo"
RedoStep == lastOp' = "redo"

\* C1: after any sequence of push, undo and redo the buffer holds at most
\* HistoryLimit (50) entries; a push that would make it 51 removes the oldest
\* entry, keeps the other entries in order and leaves the cursor on the
\* newly pushed, last entry.
C1_BoundedEviction ==
    /\ [](Len(history) <= HistoryLimit)
    /\ [][(PushStep /\ historyIndex + 2 > HistoryLimit) =>
            /\ Len(history') = HistoryLimit
            /\ \A i \in 1..(HistoryLimit - 1) : history'[i] = history[i + 1]
            /\ history'[HistoryLimit] = stamp'
            /\ historyIndex' = HistoryLimit - 1]_vars

\* a push has evicted the oldest entry of a full buffer
C1_Witness ==
    /\ lastOp = "push"
    /\ shifted
    /\ Len(history) = HistoryLimit
    /\ history[1] > 1

\* C2: a push made while the cursor is not on the last entry discards every
\* entry after the cursor before appending; right after any push the cursor
\* is on the last entry, redo would return null, and the entries up to the
\* old cursor are unchanged.
C2_PushTruncates ==
    /\ [](lastOp = "push" => /\ historyIndex = Len(history) - 1
                             /\ ~(historyIndex < Len(history) - 1)
                             /\ history[Len(history)] = stamp)
    /\ [][(PushStep /\ historyIndex + 2 <= HistoryLimit) =>
            /\ Len(history') = historyIndex + 2
            /\ SubSeq(history', 1, historyIndex + 1)
                 = SubSeq(history, 1, historyIndex + 1)]_vars
    /\ [][(lastOp = "push" /\ RedoStep) =>
            ret' = NullState /\ UNCHANGED <<history, historyIndex>>]_vars

\* a push was made from the middle of the buffer and dropped the tail
C2_Witness ==
    /\ lastOp = "push"
    /\ undos > 0
    /\ Len(history) >= 2
    /\ history[Len(history)] > history[Len(history) - 1] + 1

\* C3: undo moves the cursor one back and returns the entry now under it,
\* redo moves it one forward and returns the entry now under it; undo on the
\* first entry or on an empty buffer, and redo on the last entry, return null
\* and change neither buffer nor cursor; an undo that returned a state followed
\* directly by a redo returns the state that was current before the undo.
C3_UndoRedo ==
    /\ [][(UndoStep /\ historyIndex > 0) =>
            /\ historyIndex' = historyIndex - 1
            /\ ret' = history[historyIndex' + 1]
            /\ ret' # NullState
            /\ history' = history]_vars
    /\ [][(UndoStep /\ historyIndex <= 0) =>
            ret' = NullState /\ UNCHANGED <<history, historyIndex>>]_vars
    /\ [][(RedoStep /\ historyIndex < Len(history) - 1) =>
            /\ historyIndex' = historyIndex + 1
            /\ ret' = history[historyIndex' + 1]
            /\ history' = history]_vars
    /\ [][(RedoStep /\ historyIndex >= Len(history) - 1) =>
            ret' = NullState /\ UNCHANGED <<history, historyIndex>>]_vars
    /\ [][(lastOp = "undo" /\ ret # NullState /\ RedoStep) => ret' = before]_vars

\* a redo directly after a successful undo has returned a state
C3_Witness ==
    /\ lastOp = "redo"
    /\ prevOp = "undo"
    /\ prevRet # NullState
    /\ ret # NullState
    /\ ret = Current

(***************************************************************************)
(* Claims about the converter                                              *)
(***************************************************************************)

Str_PostUserMM ==
    <<"P", "o", "s", "t", "-", "U", "s", "e", "r", "-", "M", "-", "M">>
Str_authorId == <<"a", "u", "t", "h", "o", "r", "I", "d">>
Str_authorIdRight ==
    <<"a", "u", "t", "h", "o", "r", "I", "d", "-", "r", "i", "g", "h", "t">>
Str_idLeft == <<"i", "d", "-", "l", "e", "f", "t">>
Str_PostUserAuthor ==
    <<"P", "o", "s", "t", "-", "U", "s", "e", "r", "-", "a", "u", "t", "h",
      "o", "r">>

\* indices of the edges that join the models named a and b
EdgesBetween(a, b) ==
    {i \in 1..Len(edges) : {edges[i].source, edges[i].target} = {a, b}}

\* the two names in sorted order, followed by -M-M
ManyToManyId(a, b) ==
    IF StrLess(b, a) THEN b \o Str_Dash \o a \o Str_DashMM
    ELSE a \o Str_Dash \o b \o Str_DashMM

\* indices of the fields of model m whose type is the model named t
FieldsOfType(m, t) == {k \in 1..Len(m.fields) : m.fields[k].type = t}

HasListFieldOf(m, t) == \E k \in FieldsOfType(m, t) : m.fields[k].isList

NoReferences(m) ==
    \A k \in 1..Len(m.fields) : m.fields[k].relation.references = <<>>

\* two entities, each with a list-typed field of the other's type, and no
\* foreign key declared on either side
ImplicitManyToManyDoc ==
    /\ Len(schema) = 2
    /\ HasListFieldOf(schema[1], schema[2].name)
    /\ HasListFieldOf(schema[2], schema[1].name)
    /\ NoReferences(schema[1])
    /\ NoReferences(schema[2])

\* the list field is the only field of each entity that has the other's type
OnlyOneFieldEach ==
    /\ Cardinality(FieldsOfType(schema[1], schema[2].name)) = 1
    /\ Cardinality(FieldsOfType(schema[2], schema[1].name)) = 1

\* the relation names of those two fields are both absent or are equal
RelationNamesAgree ==
    \A k1 \in FieldsOfType(schema[1], schema[2].name) :
        \A k2 \in FieldsOfType(schema[2], schema[1].name) :
            schema[1].fields[k1].relation.name = schema[2].fields[k2].relation.name

\* C4 as stated: two entities that each have a list-typed field of the other's
\* type, with no foreign key on either side, get exactly one edge, and its id
\* is the two names in sorted order followed by -M-M, whichever comes first.
C4_ExactlyOneEdge ==
    (cpc = "converted" /\ ImplicitManyToManyDoc) =>
        /\ Cardinality(EdgesBetween(schema[1].name, schema[2].name)) = 1
        /\ \A i \in EdgesBetween(schema[1].name, schema[2].name) :
               edges[i].id = ManyToManyId(schema[1].name, schema[2].name)

\* C4, amended: such a pair gets at most one edge, never two, and that edge
\* has the sorted -M-M id whichever entity comes first; it gets exactly one
\* when the two list fields are the entities' only fields of each other's
\* type and their relation names are both absent or equal, and none when
\* those names differ or only one side is named.
C4_AtMostOneEdge ==
    (cpc = "converted" /\ ImplicitManyToManyDoc) =>
        /\ Cardinality(EdgesBetween(schema[1].name, schema[2].name)) <= 1
        /\ \A i \in EdgesBetween(schema[1].name, schema[2].name) :
               edges[i].id = ManyToManyId(schema[1].name, schema[2].name)
        /\ (OnlyOneFieldEach /\ RelationNamesAgree) =>
               Cardinality(EdgesBetween(schema[1].name, schema[2].name)) = 1
        /\ (OnlyOneFieldEach /\ ~RelationNamesAgree) =>
               EdgesBetween(schema[1].name, schema[2].name) = {}

\* User comes first in the document, and the one edge is Post-User-M-M
C4_Witness ==
    /\ cpc = "converted"
    /\ ImplicitManyToManyDoc
    /\ OnlyOneFieldEach
    /\ RelationNamesAgree
    /\ schema[1].name = Str_User
    /\ Len(edges) = 1
    /\ edges[1].id = Str_PostUserMM

\* Post { id, authorId, author User @relation(fields: [authorId],
\* references: [id]) } and User { id, posts Post[] }, in either order
PostUserExample ==
    LET postShapes == <<[isList |-> FALSE, name |-> <<>>, hasRefs |-> TRUE]>>
        userShapes == <<[isList |-> TRUE, name |-> <<>>, hasRefs |-> FALSE]>>
    IN \/ schema = Document(Str_Post, Str_User, postShapes, userShapes)
       \/ schema = Document(Str_User, Str_Post, userShapes, postShapes)

\* the model named n has a field of type t whose relation has references and
\* whose first own field is fk
HoldsForeignKey(n, t, fk) ==
    \E i \in 1..Len(schema) :
        /\ schema[i].name = n
        /\ \E k \in FieldsOfType(schema[i], t) :
               /\ schema[i].fields[k].relation.references # <<>>
               /\ schema[i].fields[k].relation.fields # <<>>
               /\ schema[i].fields[k].relation.fields[1] = fk

IsManyToManyId(e) == e.id = ManyToManyId(e.source, e.target)

\* C5: for the Post/User example the converter emits exactly one edge, of
\* cardinality 1-M, whose source is Post, the foreign-key holder, anchored at
\* authorId, and whose target is User, anchored at id; in general the source
\* of an explicit-relation edge is the entity that holds the foreign key.
C5_OneToManyDirection ==
    cpc = "converted" =>
        /\ PostUserExample =>
               /\ Len(edges) = 1
               /\ edges[1].relationType = "1-M"
               /\ edges[1].source = Str_Post
               /\ edges[1].target = Str_User
               /\ edges[1].sourceHandle = Str_authorIdRight
               /\ edges[1].targetHandle = Str_idLeft
               /\ edges[1].id = Str_PostUserAuthor
        /\ \A i \in 1..Len(edges) :
               ~IsManyToManyId(edges[i]) =>
                   \E fk \in {Str_authorId, Str_owner \o Str_Id,
                              Str_editor \o Str_Id, Str_parent \o Str_Id} :
                       /\ HoldsForeignKey(edges[i].source, edges[i].target, fk)
                       /\ edges[i].sourceHandle = fk \o Str_Right

\* the Post/User example has been converted, User first in the document
C5_Witness ==
    /\ cpc = "converted"
    /\ PostUserExample
    /\ schema[1].name = Str_User
    /\ Len(edges) = 1

\* the inverse of field k of model i: the first field of the field's type
\* that is relational, has model i as its type and passes the name rule;
\* 0 when there is none
InverseOf(i, k) ==
    LET f == schema[i].fields[k]
        t == schema[FindModel(schema, f.type)]
    IN FindInverse(t, f, schema[i].name)

RelationalFields ==
    {p \in {<<i, k>> : i \in 1..Len(schema), k \in 1..MaxRelFields * 2 + 1} :
        /\ p[2] <= Len(schema[p[1]].fields)
        /\ schema[p[1]].fields[p[2]].relation.defined
        /\ FindModel(schema, schema[p[1]].fields[p[2]].type) # 0}

HasRefs(i, k) == schema[i].fields[k].relation.references # <<>>

InverseHasRefs(i, k) ==
    LET t == FindModel(schema, schema[i].fields[k].type)
    IN InverseOf(i, k) # 0 /\ HasRefs(t, InverseOf(i, k))

BothLists(i, k) ==
    LET t == FindModel(schema, schema[i].fields[k].type)
    IN /\ schema[i].fields[k].isList
       /\ InverseOf(i, k) # 0
       /\ schema[t].fields[InverseOf(i, k)].isList

\* exactly one side has references
OneSided(i, k) == HasRefs(i, k) # InverseHasRefs(i, k)

\* neither side has references and both sides are lists
ImplicitPair(i, k) == ~HasRefs(i, k) /\ ~InverseHasRefs(i, k) /\ BothLists(i, k)

ExplicitId(i, k) ==
    schema[i].name \o Str_Dash \o schema[i].fields[k].type
        \o Str_Dash \o schema[i].fields[k].name

\* C6: an edge is emitted for a relational field and its inverse only if
\* exactly one of the two sides has references, or neither has and both are
\* lists; when both sides have references, or neither has and the sides are
\* not both lists, no edge is emitted for the pair.
C6_EdgePolicy ==
    cpc = "converted" =>
        /\ \A e \in 1..Len(edges) :
               \E p \in RelationalFields :
                   \/ edges[e].id = ExplicitId(p[1], p[2]) /\ OneSided(p[1], p[2])
                   \/ /\ edges[e].id = ManyToManyId(schema[p[1]].name,
                                                    schema[p[1]].fields[p[2]].type)
                      /\ ImplicitPair(p[1], p[2])
        /\ \A p \in RelationalFields :
               (~OneSided(p[1], p[2]) /\ ~ImplicitPair(p[1], p[2])) =>
                   /\ \A e \in 1..Len(edges) : edges[e].id # ExplicitId(p[1], p[2])
                   /\ (\A q \in RelationalFields : ~ImplicitPair(q[1], q[2])) =>
                          \A e \in 1..Len(edges) : ~IsManyToManyId(edges[e])

\* a field and its inverse both have references, and no edge was emitted
C6_Witness ==
    /\ cpc = "converted"
    /\ edges = <<>>
    /\ \E p \in RelationalFields : HasRefs(p[1], p[2]) /\ InverseHasRefs(p[1], p[2])

(***************************************************************************)
(* Claims about the schema text mutator                                    *)
(***************************************************************************)

Str_CategoryOnPost ==
    <<"C", "a", "t", "e", "g", "o", "r", "y", "O", "n", "P", "o", "s", "t">>
Str_PostOnCategory ==
    <<"P", "o", "s", "t", "O", "n", "C", "a", "t", "e", "g", "o", "r", "y">>
Line_postId == <<"p", "o", "s", "t", "I", "d", " ", "I", "n", "t">>
Line_categoryId ==
    <<"c", "a", "t", "e", "g", "o", "r", "y", "I", "d", " ", "I", "n", "t">>
Line_post ==
    <<"p", "o", "s", "t", " ", "P", "o", "s", "t", " ", "@", "r", "e", "l",
      "a", "t", "i", "o", "n", "(", "f", "i", "e", "l", "d", "s", ":", " ",
      "[", "p", "o", "s", "t", "I", "d", "]", ",", " ", "r", "e", "f", "e",
      "r", "e", "n", "c", "e", "s", ":", " ", "[", "i", "d", "]", ")">>
Line_category ==
    <<"c", "a", "t", "e", "g", "o", "r", "y", " ", "C", "a", "t", "e", "g",
      "o", "r", "y", " ", "@", "r", "e", "l", "a", "t", "i", "o", "n", "(",
      "f", "i", "e", "l", "d", "s", ":", " ", "[", "c", "a", "t", "e", "g",
      "o", "r", "y", "I", "d", "]", ",", " ", "r", "e", "f", "e", "r", "e",
      "n", "c", "e", "s", ":", " ", "[", "i", "d", "]", ")">>
Line_compositeId ==
    <<"@", "@", "i", "d", "(", "[", "p", "o", "s", "t", "I", "d", ",", " ",
      "c", "a", "t", "e", "g", "o", "r", "y", "I", "d", "]", ")">>
Line_categoryOnPost ==
    <<"c", "a", "t", "e", "g", "o", "r", "y", "O", "n", "P", "o", "s", "t",
      " ", "C", "a", "t", "e", "g", "o", "r", "y", "O", "n", "P", "o", "s",
      "t", "[", "]">>
Line_postOnCategory ==
    <<"p", "o", "s", "t", "O", "n", "C", "a", "t", "e", "g", "o", "r", "y",
      " ", "P", "o", "s", "t", "O", "n", "C", "a", "t", "e", "g", "o", "r",
      "y", "[", "]">>

\* the entity has a declaration in the text
Declared(t, modelName) ==
    FindExtracted(extractModels(t), modelName) # NoModel

\* the trimmed, non-empty lines of the entity's body, in order
BodyLines(t, modelName) ==
    LET lines == SplitLines(ModelBody(t, FindExtracted(extractModels(t),
                                                       modelName)))
    IN SelectSeq([i \in 1..Len(lines) |-> Trim(lines[i])], LAMBDA l : l # <<>>)

\* type, optional marker and attributes of the lines that declare the field
\* named id in the entity
IdDeclarations(t, modelName) ==
    LET lines == BodyLines(t, modelName)
    IN {[type |-> FieldLineMatch(lines[i]).type,
         optionalMarker |-> FieldLineMatch(lines[i]).optionalMarker,
         attributes |-> Trim(FieldLineMatch(lines[i]).rest)] :
            i \in {k \in 1..Len(lines) : LineDeclares(lines[k], Str_id)}}

\* the names of the entities declared in the text
DeclaredNames(t) ==
    {extractModels(t)[i].name : i \in 1..Len(extractModels(t))}

\* C7: calling the mutator with one-to-many parameters and calling it again
\* with the same connection and options on the returned text gives on the
\* second call a text identical to the result of the first call.
C7_SecondCallIdentical ==
    (opts.type = "1-M" /\ calls = 2) => text = input

\* C8: no call of the mutator changes the declaration of a field named id in
\* any entity: its type, optional marker and attributes are the same in the
\* result as in the input.
C8_IdUntouched ==
    calls >= 1 =>
        \A n \in DeclaredNames(input) :
            IdDeclarations(text, n) = IdDeclarations(input, n)

\* C9: explicit many-to-many from Post to Category on a text that declares
\* both and no junction yet: order BonA names the junction CategoryOnPost,
\* any other order PostOnCategory; the junction holds the scalar foreign keys
\* postId and categoryId, a relation field for each that references id, and
\* @@id over exactly those two; Post and Category each get a list field of
\* the junction type.
C9_Junction ==
    (/\ calls = 1
     /\ opts.type = "M-M"
     /\ opts.mode = "explicit"
     /\ conn.sourceModel = Str_Post
     /\ conn.targetModel = Str_Category
     /\ {Str_Post, Str_Category} \subseteq DeclaredNames(input)
     /\ DeclaredNames(input) \cap {Str_CategoryOnPost, Str_PostOnCategory} = {})
    =>
    LET junction == IF opts.junctionOrder = "BonA" THEN Str_CategoryOnPost
                    ELSE Str_PostOnCategory
        listField == IF opts.junctionOrder = "BonA" THEN Line_categoryOnPost
                     ELSE Line_postOnCategory
    IN /\ DeclaredNames(text) = DeclaredNames(input) \cup {junction}
       /\ BodyLines(text, junction) =
              <<Line_postId, Line_categoryId, Line_post, Line_category,
                Line_compositeId>>
       /\ \A n \in {Str_Post, Str_Category} :
              /\ BodyLines(text, n) = BodyLines(input, n) \o <<listField>>

C9_Witness ==
    /\ calls = 1
    /\ opts = RelationOptions("M-M", "explicit", "BonA", FALSE)
    /\ conn.sourceModel = Str_Post
    /\ conn.targetModel = Str_Category
    /\ original = Schema_PostCategory
    /\ Declared(text, Str_CategoryOnPost)
    /\ ~Declared(input, Str_CategoryOnPost)

\* C10: an edit step aimed at an entity without a declaration leaves the text
\* as it is, and when neither the source nor the target entity is declared
\* the mutator returns the input text unchanged for every cardinality and
\* mode: no field is added and no entity is created.
C10_UndeclaredIsNoOp ==
    calls >= 1 =>
        /\ \A n \in {conn.sourceModel, conn.targetModel} \ DeclaredNames(input) :
               /\ addFieldToModel(input, n, Line_postId, <<>>) = input
               /\ makeFieldOptional(input, n, conn.sourceField) = input
        /\ {conn.sourceModel, conn.targetModel} \cap DeclaredNames(input) = {}
               => text = input

(***************************************************************************)
(* Claims about the parser and the text generator                          *)
(***************************************************************************)

\* the lines whose attribute argument is a string literal holding braces
BraceLiteralLines == {Line_bioBraces, Line_bioCloseBrace, Line_bioOpenBrace}

\* the field a typed line declares, if it declares one
LineName(line) ==
    IF line = Line_id THEN <<Str_id>>
    ELSE IF line = Line_title THEN <<Str_title>>
    ELSE IF line \in BraceLiteralLines THEN <<Str_bio>>
    ELSE IF line = Line_commentBrace THEN <<Str_slug>>
    ELSE <<>>

RECURSIVE ExpectedNames(_)
ExpectedNames(lines) ==
    IF lines = <<>> THEN <<>>
    ELSE LineName(Head(lines)) \o ExpectedNames(Tail(lines))

FieldNames(model) == [k \in 1..Len(model.fields) |-> model.fields[k].name]

\* the typed bodies
TypedBodies == SeqsUpTo(BodyPalette, MaxBodyLines)

\* Post holds exactly the fields its lines declare and Tag is a model of its
\* own holding id
ParsedAsTyped(lines) ==
    /\ Len(parsed) = 2
    /\ parsed[1].name = Str_Post
    /\ FieldNames(parsed[1]) = ExpectedNames(lines)
    /\ parsed[2].name = Str_Tag
    /\ FieldNames(parsed[2]) = <<Str_id>>

\* C11: when a line of a closed model body has an attribute argument that is
\* a string literal holding brace characters, the body still ends at the
\* model's own closing brace: every field declared in the body, also after
\* that line, is a field of the model, and the next model is parsed on its own.
C11_BraceLiteralKeepsBody ==
    \A lines \in TypedBodies :
        (/\ ppc = "parsed"
         /\ written = TypedText(lines, TRUE)
         /\ \E k \in 1..Len(lines) : lines[k] \in BraceLiteralLines)
            => ParsedAsTyped(lines)

\* C12: every text yields a document in which both models are reported and
\* the model after Post is parsed in full; a Post whose closing brace is
\* missing is reported (the scan stops at the end of the text and leaves it
\* without fields), and in a closed Post without brace literals a line that
\* does not match the field grammar is skipped and the other lines are parsed.
C12_PartialResults ==
    \A lines \in TypedBodies : \A closed \in BOOLEAN :
        (ppc = "parsed" /\ written = TypedText(lines, closed))
            => /\ Len(parsed) = 2
               /\ parsed[1].name = Str_Post
               /\ parsed[2].name = Str_Tag
               /\ FieldNames(parsed[2]) = <<Str_id>>
               /\ (\A k \in 1..Len(lines) : lines[k] \notin BraceLiteralLines)
                      => IF closed
                         THEN FieldNames(parsed[1]) = ExpectedNames(lines)
                         ELSE parsed[1].fields = <<>>

\* a closed Post with a malformed line between two fields has been parsed
C12_Witness ==
    /\ ppc = "parsed"
    /\ written = TypedText(<<Line_malformed, Line_title>>, TRUE)
    /\ FieldNames(parsed[1]) = <<Str_title>>

\* an open Post has been parsed and the model after it is reported
C12_WitnessOpen ==
    /\ ppc = "parsed"
    /\ written = TypedText(<<Line_id, Line_malformed>>, FALSE)
    /\ Len(parsed) = 2

\* the model names of the nodes of the diagram
NodeModelNames == {diagram.nodes[i].data.modelName : i \in 1..Len(diagram.nodes)}

\* the names of the fields whose type is none of the entities, in order
NonRelationalNames(fields, entities) ==
    LET kept == SelectSeq(fields, LAMBDA f : f.type \notin entities)
    IN [k \in 1..Len(kept) |-> kept[k].name]

\* C13: writing a diagram out with generatePrismaSchema and parsing the text
\* yields one entity per node, under the node's model name, and each entity
\* has the names of the non-relational fields of its node.
C13_RoundTripKeepsNames ==
    (ppc = "parsed" /\ diagram # EmptyDiagram)
        => /\ Len(parsed) = Len(diagram.nodes)
           /\ {parsed[i].name : i \in 1..Len(parsed)} = NodeModelNames
           /\ \A i \in 1..Len(parsed) :
                  /\ parsed[i].name = diagram.nodes[i].data.modelName
                  /\ NonRelationalNames(parsed[i].fields, NodeModelNames)
                         = NonRelationalNames(diagram.nodes[i].data.fields,
                                              NodeModelNames)

\* a diagram of two nodes with datasource, generator and an edge was written
\* out and parsed; its first node has a non-relational and a relational field
C13_Witness ==
    /\ ppc = "parsed"
    /\ Len(diagram.nodes) = 2
    /\ diagram.datasource.present
    /\ diagram.edges # <<>>
    /\ Len(diagram.nodes[1].data.fields) = 2
    /\ diagram.nodes[1].data.fields[1].type = Str_String
    /\ diagram.nodes[1].data.fields[2].type = Str_Tag
    /\ Len(parsed[1].fields) = 2

(***************************************************************************)
(* Claims about the editor                                                 *)
(***************************************************************************)

\* C14: while the error of a failed parse is shown, the store still holds
\* the last document a parse returned, and once the schema effect has run
\* the canvas still shows the diagram of that document: a failed parse does
\* not replace the diagram by an empty one.
C14_FailedParseKeepsDocument ==
    (error # NoError /\ ~lastParsed.isNull)
        => /\ parsedSchema = lastParsed
           /\ (~schemaChanged /\ Len(lastParsed.models) > 0)
                  => canvasNodes =
                         convertSchemaToNodesAndEdges(lastParsed.models).nodes

(***************************************************************************)
(* Claims about the frame of a mutator call                                *)
(***************************************************************************)

\* the 0-based positions of t inside the bodies of the entities named
BodyPositions(t, names) ==
    LET models == extractModels(t)
    IN {p \in 0..(Len(t) - 1) :
           \E i \in 1..Len(models) :
               /\ models[i].name \in names
               /\ models[i].startPos <= p
               /\ p < models[i].endPos}

\* t without the bodies of the entities named
Outside(t, names) ==
    LET inside == BodyPositions(t, names)
    IN SelectSeq([k \in 1..Len(t) |-> IF (k - 1) \in inside THEN <<>> ELSE <<t[k]>>],
                 LAMBDA c : c # <<>>)

RECURSIVE Flatten(_)
Flatten(pieces) ==
    IF pieces = <<>> THEN <<>> ELSE Head(pieces) \o Flatten(Tail(pieces))

\* the lines of the entity's body that are not blank, as they stand
RawBodyLines(t, modelName) ==
    LET lines == SplitLines(ModelBody(t, FindExtracted(extractModels(t),
                                                       modelName)))
    IN SelectSeq(lines, LAMBDA l : Trim(l) # <<>>)

\* the name of the junction entity of the call
JunctionOfCall ==
    junctionModelName(opts, conn.sourceModel, conn.targetModel)

\* the entities a call may edit, and the junction when the call creates it
EditedEntities == {conn.sourceModel, conn.targetModel}

JunctionCreated ==
    /\ opts.type = "M-M"
    /\ opts.mode = "explicit"
    /\ ~Declared(input, JunctionOfCall)
    /\ Declared(text, JunctionOfCall)

\* an empty declaration of the junction entity, as the mutator frames it
EmptyJunction ==
    Str_NewlineModel \o JunctionOfCall \o Str_OpenModel \o Str_CloseBrace
        \o Str_Newline

\* the text outside the edited bodies is the one of the input, but for an
\* inserted junction declaration
OutsideCarriedOver ==
    LET old == Flatten(Outside(input, EditedEntities))
    IN IF JunctionCreated
       THEN \E k \in 0..Len(old) :
                Flatten(Outside(text, EditedEntities \cup {JunctionOfCall}))
                    = InsertAt(old, k, EmptyJunction)
       ELSE Flatten(Outside(text, EditedEntities)) = old

\* every line of the input body is still there, in its place, or a line
\* declaring the same field stands in its place
LinesKept(modelName) ==
    LET old == RawBodyLines(input, modelName)
        new == RawBodyLines(text, modelName)
    IN /\ Len(new) >= Len(old)
       /\ \A k \in 1..Len(old) :
              \/ new[k] = old[k]
              \/ /\ FirstToken(Trim(new[k])) = FirstToken(Trim(old[k]))
                 /\ FieldLineMatch(Trim(old[k])).matched

C15_WitnessFields ==
    /\ calls = 1
    /\ input = Schema_Blog
    /\ opts.type = "1-M"
    /\ Len(RawBodyLines(text, Str_Post)) > 2
    /\ Len(RawBodyLines(text, Str_Category)) > 1

(***************************************************************************)
(* Claims about the inverse field and the cardinality of an edge           *)
(***************************************************************************)

\* field j of the entity that field k of entity i points to is relational,
\* has the type of entity i and passes the rule on relation names
Accepted(i, k, j) ==
    LET f == schema[i].fields[k]
        g == schema[FindModel(schema, f.type)].fields[j]
    IN /\ g.relation.defined
       /\ g.type = schema[i].name
       /\ (f.relation.name # <<>>) = (g.relation.name # <<>>)
       /\ f.relation.name = g.relation.name

AcceptedCandidates(i, k) ==
    LET t == FindModel(schema, schema[i].fields[k].type)
    IN {j \in 1..Len(schema[t].fields) : Accepted(i, k, j)}

\* the fields of the pointed-to entity that are relational and of the type
\* of entity i, whatever their relation names
TypedCandidates(i, k) ==
    LET t == FindModel(schema, schema[i].fields[k].type)
    IN {j \in 1..Len(schema[t].fields) :
           /\ schema[t].fields[j].relation.defined
           /\ schema[t].fields[j].type = schema[i].name}

\* C16: the inverse of a relational field is the first field of the entity
\* it points to, in declaration order, that is relational, has the type of
\* the field's own entity and either has the same relation name or, like the
\* field, has none; a field with a name and a field without one never match.
\* When there is no such field, the field has no inverse.
C16_InverseRule ==
    cpc = "converted" =>
        \A p \in RelationalFields :
            IF AcceptedCandidates(p[1], p[2]) = {}
            THEN InverseOf(p[1], p[2]) = 0
            ELSE /\ InverseOf(p[1], p[2]) \in AcceptedCandidates(p[1], p[2])
                 /\ \A j \in AcceptedCandidates(p[1], p[2]) :
                        InverseOf(p[1], p[2]) <= j

\* a field whose inverse stands behind a candidate that the rule on names
\* rejects
C16_Witness ==
    /\ cpc = "converted"
    /\ \E p \in RelationalFields :
           /\ InverseOf(p[1], p[2]) # 0
           /\ \E j \in TypedCandidates(p[1], p[2]) :
                  /\ j \notin AcceptedCandidates(p[1], p[2])
                  /\ j < InverseOf(p[1], p[2])

\* a field with two accepted candidates
C16_WitnessTwoAccepted ==
    /\ cpc = "converted"
    /\ \E p \in RelationalFields :
           Cardinality(AcceptedCandidates(p[1], p[2])) >= 2

\* a field whose only candidates are rejected by the rule on names
C16_WitnessNoInverse ==
    /\ cpc = "converted"
    /\ \E p \in RelationalFields :
           /\ TypedCandidates(p[1], p[2]) # {}
           /\ InverseOf(p[1], p[2]) = 0

\* the inverse of field k of entity i exists and is a list
InverseIsList(i, k) ==
    LET t == FindModel(schema, schema[i].fields[k].type)
    IN InverseOf(i, k) # 0 /\ schema[t].fields[InverseOf(i, k)].isList

\* the cardinality the two list markers stand for
ExpectedCardinality(i, k) ==
    IF schema[i].fields[k].isList /\ InverseIsList(i, k) THEN "M-M"
    ELSE IF schema[i].fields[k].isList # InverseIsList(i, k) THEN "1-M"
    ELSE "1-1"

\* a single-valued field with references whose inverse is a list without
\* references: a one-to-many relation with the list on the one side
OneToManyPair(i, k) ==
    /\ ~schema[i].fields[k].isList
    /\ HasRefs(i, k)
    /\ InverseIsList(i, k)
    /\ ~InverseHasRefs(i, k)

\* C17: every emitted edge carries M-M when the field it was emitted for and
\* the inverse of that field are both lists, 1-M when exactly one of them is
\* a list and 1-1 when neither is; the edge of a one-to-many relation whose
\* one side is written as a list field carries 1-M.
C17_Cardinality ==
    cpc = "converted" =>
        /\ \A e \in 1..Len(edges) :
               IF IsManyToManyId(edges[e])
               THEN edges[e].relationType = "M-M"
               ELSE \E p \in RelationalFields :
                        /\ edges[e].id = ExplicitId(p[1], p[2])
                        /\ edges[e].relationType
                               = ExpectedCardinality(p[1], p[2])
        /\ \A p \in RelationalFields :
               OneToManyPair(p[1], p[2]) =>
                   \A e \in 1..Len(edges) :
                       edges[e].id = ExplicitId(p[1], p[2])
                           => edges[e].relationType = "1-M"

\* an edge was emitted for a list field with references whose inverse is a
\* list
C17_WitnessBothLists ==
    /\ cpc = "converted"
    /\ \E e \in 1..Len(edges) :
           ~IsManyToManyId(edges[e]) /\ edges[e].relationType = "M-M"

\* an edge was emitted for a one-to-many relation whose one side is a list
\* field
C17_Witness ==
    /\ cpc = "converted"
    /\ \E p \in RelationalFields :
           /\ OneToManyPair(p[1], p[2])
           /\ \E e \in 1..Len(edges) : edges[e].id = ExplicitId(p[1], p[2])

\* an edge of cardinality 1-1 was emitted for a field without an inverse
C17_WitnessNoInverse ==
    /\ cpc = "converted"
    /\ \E p \in RelationalFields :
           /\ InverseOf(p[1], p[2]) = 0
           /\ \E e \in 1..Len(edges) :
                  /\ edges[e].id = ExplicitId(p[1], p[2])
                  /\ edges[e].relationType = "1-1"

(***************************************************************************)
(* Claims about fields and entities that exist before the call             *)
(***************************************************************************)

\* type and attributes of the lines of the entity that declare the field, in
\* order
Declarations(t, modelName, fieldName) ==
    LET lines == SelectSeq(BodyLines(t, modelName),
                           LAMBDA l : LineDeclares(l, fieldName))
    IN [k \in 1..Len(lines) |->
           [type |-> FieldLineMatch(lines[k]).type,
            attributes |-> Trim(FieldLineMatch(lines[k]).rest)]]

\* the name of the scalar foreign key a one-to-many call puts on the target
ForeignKeyOfCall == modelToFieldName(conn.sourceModel, FALSE) \o Str_Id

\* the call is a one-to-many call that takes the branch with the foreign key
\* on the target entity, the many side
ForeignKeyOnTarget ==
    /\ opts.type = "1-M"
    /\ ~ForeignKeyOnSource(input, conn,
            fieldExistsInModel(input, conn.targetModel, ForeignKeyOfCall))

\* C18: when the many side of a one-to-many call already declares the scalar
\* foreign-key field, the result declares it once, with the type and the
\* attributes it had in the input.
C18_ExistingForeignKeyKept ==
    (/\ calls >= 1
     /\ ForeignKeyOnTarget
     /\ fieldExistsInModel(input, conn.targetModel, ForeignKeyOfCall))
        => Declarations(text, conn.targetModel, ForeignKeyOfCall)
               = Declarations(input, conn.targetModel, ForeignKeyOfCall)

\* the names of the entities declared in the text, in order and with repeats
DeclaredSequence(t) ==
    LET models == extractModels(t)
    IN [i \in 1..Len(models) |-> models[i].name]

\* how many entities of the text carry the name
TimesDeclared(t, modelName) ==
    Cardinality({i \in 1..Len(DeclaredSequence(t)) :
                     DeclaredSequence(t)[i] = modelName})

\* the lines of the entity's body that declare a list field of the type
ListFieldLines(t, modelName, type) ==
    SelectSeq(BodyLines(t, modelName),
              LAMBDA l : /\ ParserLineMatch(l).matched
                         /\ ParserLineMatch(l).type = type \o Str_ListMarker)

\* C19: an explicit many-to-many call creates the junction entity only when
\* the text declares no entity of that name; after the first call and after
\* a repeated call the text declares the junction entity exactly once, and
\* each of the source and target entities holds one list field of its type.
C19_JunctionOnce ==
    (calls >= 1 /\ opts.type = "M-M" /\ opts.mode = "explicit")
        => /\ TimesDeclared(text, JunctionOfCall) = 1
           /\ Declared(input, JunctionOfCall)
                  => DeclaredSequence(text) = DeclaredSequence(input)
           /\ \A n \in EditedEntities \cap DeclaredNames(input) :
                  Len(ListFieldLines(text, n, JunctionOfCall)) = 1

\* the call was repeated on a text that already had the junction entity and
\* the two list fields
C19_Witness ==
    /\ calls = 2
    /\ opts.type = "M-M"
    /\ opts.mode = "explicit"
    /\ original = Schema_Blog
    /\ conn.sourceModel = Str_Post
    /\ conn.targetModel = Str_Category
    /\ Declared(input, JunctionOfCall)
    /\ Len(ListFieldLines(input, Str_Post, JunctionOfCall)) = 1
    /\ TimesDeclared(text, JunctionOfCall) = 1

(***************************************************************************)
(* Claims about the mutator's and the parser's view of one text            *)
(***************************************************************************)

\* the bodies the mutator's scan finds in the text as it stands, with the
\* comments taken out of them as the parser takes them out
MutatorBodies(t) ==
    LET models == extractModels(t)
    IN [i \in 1..Len(models) |->
           [name |-> models[i].name,
            body |-> CleanSchema(ModelBody(t, models[i]))]]

\* the bodies the parser's model loop finds in the text
ParserBodies(t) ==
    LET models == extractModels(CleanSchema(t))
    IN [i \in 1..Len(models) |->
           [name |-> models[i].name,
            body |-> ModelBody(CleanSchema(t), models[i])]]

\* the names of the fields the parser reports for the entity
ParsedFieldNames(modelName) ==
    {n \in {Str_id, Str_title, Str_bio, Str_slug, Str_note} :
        \E i \in 1..Len(parsed) :
            /\ parsed[i].name = modelName
            /\ \E k \in 1..Len(parsed[i].fields) : parsed[i].fields[k].name = n}

\* C20: the mutator and the parser find the same entities in a text, with
\* bodies that end at the same closing brace, also when comments of the text
\* hold braces or the word model; a field line that the mutator has put
\* before the closing brace of an entity is parsed as a field of that entity.
C20_SameBodyExtent ==
    ppc = "parsed" =>
        /\ ~inserted => MutatorBodies(written) = ParserBodies(written)
        /\ (/\ inserted
            /\ \E k \in 1..Len(BodyLines(written, Str_Post)) :
                   LineDeclares(BodyLines(written, Str_Post)[k], Str_note))
               => Str_note \in ParsedFieldNames(Str_Post)

(***************************************************************************)
(* Claims about the debounced re-parse                                     *)
(***************************************************************************)

\* the stored document is the parse of the merged text of the current files
StoredIsParseOfCurrent ==
    parsedSchema =
        ParsedSchema(parsePrismaSchema(MergedSchema(mainContent, otherContent)))

\* C21: every change of the schema files is eventually followed by a parse
\* of the merged text of the latest files: once the changes have stopped,
\* the stored document is, from some moment on, the parse of the current
\* merged text (unless merging the files throws), also when a change arrived
\* while the update flag of the diagram was set.
C21_EventuallyParsed ==
    <>[](MergeThrows(otherContent) \/ StoredIsParseOfCurrent)

\* a file was added while the flag was set, no timer is pending, the flag
\* has been reset and the stored document is not the parse of the files
C21_StaleAfterFlaggedChange ==
    /\ ~updateTimeout
    /\ ~isUpdatingFromDiagram
    /\ otherContent = TagsFile
    /\ edits = MaxEdits
    /\ ~parsedSchema.isNull
    /\ ~StoredIsParseOfCurrent

(***************************************************************************)
(* Claims about the merged text of several files                           *)
(***************************************************************************)

\* the files whose content getMergedSchema joins: the main file, then the
\* other files that are not empty, in file order
MergedFiles(files) ==
    LET IsMain(f) == f.isMain
        IsOtherPart(f) == ~f.isMain /\ Trim(f.content) # <<>>
        mains == SelectSeq(files, IsMain)
    IN (IF mains = <<>> THEN <<>> ELSE <<mains[1]>>)
       \o SelectSeq(files, IsOtherPart)

\* the models of each of the files, parsed on its own, one after the other
RECURSIVE ModelsFileByFile(_)
ModelsFileByFile(files) ==
    IF files = <<>> THEN <<>>
    ELSE parsePrismaSchema(files[1].content) \o ModelsFileByFile(Tail(files))

\* the separator line of a file
SeparatorLine(file) == Str_SeparatorOpen \o file.name \o Str_SeparatorClose

\* every separator line of the merged text is in the cleaned text, and every
\* "//" left in the cleaned text starts a comment of the separator form
SeparatorsSurvive(files) ==
    LET clean == CleanSchema(getMergedSchema(files))
    IN /\ \A i \in 1..Len(files) :
              (~files[i].isMain /\ Trim(files[i].content) # <<>>)
                  => Includes(clean, SeparatorLine(files[i]))
       /\ \A p \in 0..(Len(clean) - 2) :
              StartsWithAt(clean, p, Str_Slashes)
                  => StartsWithAt(clean, SkipSpaces(clean, p + 2), Str_Separator)

\* C22: the separator lines // === <filename> === survive comment stripping
\* while the other single-line comments are removed, and the models parsed
\* from the text getMergedSchema builds are the models of the main file
\* followed by the models of each other non-empty file, in file order.
C22_MergedModels ==
    storeCall.op = "parse"
        => /\ SeparatorsSurvive(schemaFiles)
           /\ storeParsed = ModelsFileByFile(MergedFiles(schemaFiles))

\* the first half of C22 alone
C22_SeparatorsSurvive ==
    storeCall.op = "parse" => SeparatorsSurvive(schemaFiles)

\* the second half of C22 for files whose string literals hold no brace
C22_MergedModelsNoBraceLiteral ==
    (/\ storeCall.op = "parse"
     /\ \A i \in 1..Len(schemaFiles) :
            schemaFiles[i].content
                \notin {Text_PostOpenLiteral, Text_KindCloseLiteral})
        => storeParsed = ModelsFileByFile(MergedFiles(schemaFiles))

(***************************************************************************)
(* Claims about the handles of an edge                                     *)
(***************************************************************************)

\* the names of the fields of the node with the given id
NodeFieldNames(nodeId) ==
    {nodes[n].data.fields[k].name :
        n \in {m \in 1..Len(nodes) : nodes[m].id = nodeId},
        k \in 1..Len(nodes[CHOOSE m \in 1..Len(nodes) : nodes[m].id = nodeId]
                         .data.fields)}

\* the names of the fields of the model that carry @id
IdentityNames(modelName) ==
    {schema[i].fields[k].name :
        i \in {m \in 1..Len(schema) : schema[m].name = modelName},
        k \in {j \in 1..Len(schema[FindModel(schema, modelName)].fields) :
                  HasAttr(schema[FindModel(schema, modelName)].fields[j], Str_AtId)}}

\* the field an edge was emitted for
EmittedFor(e) ==
    {p \in RelationalFields :
        LET d == FieldDecision(schema, schema[p[1]], schema[p[1]].fields[p[2]])
        IN d.candidate /\ d.edgeId = e.id}

\* the handles of the edge e, emitted for the field at p, are where C23 says
AnchoredAsStated(e, p) ==
    LET field == schema[p[1]].fields[p[2]]
        d == FieldDecision(schema, schema[p[1]], field)
    IN IF d.isImplicitManyToMany
       THEN /\ \E key \in IdentityNames(e.source) : e.sourceHandle = key \o Str_Right
            /\ \E key \in IdentityNames(e.target) : e.targetHandle = key \o Str_Left
       ELSE /\ e.sourceHandle = field.relation.fields[1] \o Str_Right
            /\ e.targetHandle = field.relation.references[1] \o Str_Left

\* both handles of e name a field of the node at that end
HandlesExist(e) ==
    /\ \E name \in NodeFieldNames(e.source) : e.sourceHandle = name \o Str_Right
    /\ \E name \in NodeFieldNames(e.target) : e.targetHandle = name \o Str_Left

\* C23: an implicit many-to-many edge is anchored at the identity field (the
\* field that carries @id) of the entity at each end, an explicit-relation
\* edge at the relation's foreign-key field and at the referenced field; so
\* every handle of an emitted edge names a field of the entity at that end.
C23_HandlesNameFields ==
    cpc = "converted"
        => \A x \in 1..Len(edges) :
               /\ EmittedFor(edges[x]) # {}
               /\ \A p \in EmittedFor(edges[x]) : AnchoredAsStated(edges[x], p)
               /\ HandlesExist(edges[x])

\* the explicit-relation half of C23
C23_ExplicitHandles ==
    cpc = "converted"
        => \A x \in 1..Len(edges) :
               \A p \in EmittedFor(edges[x]) :
                   FieldDecision(schema, schema[p[1]],
                                 schema[p[1]].fields[p[2]]).isExplicitRelation
                       => /\ AnchoredAsStated(edges[x], p)
                          /\ HandlesExist(edges[x])

\* C23 for the documents whose identity fields are named id
C23_HandlesWhenNamedId ==
    (/\ cpc = "converted"
     /\ \A i \in 1..Len(schema) : IdentityNames(schema[i].name) = {Str_id})
        => \A x \in 1..Len(edges) :
               /\ \A p \in EmittedFor(edges[x]) : AnchoredAsStated(edges[x], p)
               /\ HandlesExist(edges[x])

\* the call is a many-to-many call in implicit mode
ImplicitCall == calls >= 1 /\ opts.type = "M-M" /\ opts.mode = "implicit"

\* the field names a connection of the diagram can carry
ConnectionFields == {Str_id, Str_title, Str_categoryId}

\* the entity holds exactly one line that declares the pluralized lower-camel
\* name of the other entity, and that line is a list of the other's type
HoldsListOf(t, modelName, other) ==
    LET lines == SelectSeq(BodyLines(t, modelName),
                           LAMBDA l : LineDeclares(l, modelToFieldName(other, TRUE)))
    IN /\ Len(lines) = 1
       /\ lines[1] = modelToFieldName(other, TRUE) \o Str_Space
                         \o other \o Str_ListMarker

\* C24: a many-to-many call in implicit mode leaves the declared entities as
\* they were (no junction entity), each of the two entities that the text
\* declares holds one list field of the other's type named by the other's
\* pluralized lower-camel name, and the returned text is the same for any
\* source and target field names and for source and target swapped.
C24_ImplicitManyToMany ==
    ImplicitCall
        => /\ DeclaredSequence(text) = DeclaredSequence(input)
           /\ Declared(input, conn.sourceModel)
                  => HoldsListOf(text, conn.sourceModel, conn.targetModel)
           /\ Declared(input, conn.targetModel)
                  => HoldsListOf(text, conn.targetModel, conn.sourceModel)
           /\ \A sf \in ConnectionFields, tf \in ConnectionFields :
                  /\ addRelationToSchema(input,
                         ConnectionInfo(conn.sourceModel, sf, conn.targetModel, tf),
                         opts) = text
                  /\ addRelationToSchema(input,
                         ConnectionInfo(conn.targetModel, tf, conn.sourceModel, sf),
                         opts) = text

\* an implicit many-to-many call was made on a text that declares both
\* entities and the text changed
C24_ImplicitCallMade ==
    /\ ImplicitCall
    /\ calls = 1
    /\ Declared(input, conn.sourceModel)
    /\ Declared(input, conn.targetModel)
    /\ text # input

(***************************************************************************)
(* Relating two entities that hold only an id                              *)
(***************************************************************************)

\* Post and Category, each with the id field only
Schema_IdOnly ==
    <<"m", "o", "d", "e", "l", " ", "P", "o", "s", "t", " ", "{", "\n",
      " ", " ", "i", "d", " ", "I", "n", "t", " ", "@", "i", "d", "\n",
      "}", "\n", "\n", "m", "o", "d", "e", "l", " ", "C", "a", "t", "e",
      "g", "o", "r", "y", " ", "{", "\n", " ", " ", "i", "d", " ", "I",
      "n", "t", " ", "@", "i", "d", "\n", "}", "\n">>

\* the same two entities, Category first
Schema_IdOnlyReversed ==
    <<"m", "o", "d", "e", "l", " ", "C", "a", "t", "e", "g", "o", "r", "y",
      " ", "{", "\n", " ", " ", "i", "d", " ", "I", "n", "t", " ", "@",
      "i", "d", "\n", "}", "\n", "\n", "m", "o", "d", "e", "l", " ", "P",
      "o", "s", "t", " ", "{", "\n", " ", " ", "i", "d", " ", "I", "n",
      "t", " ", "@", "i", "d", "\n", "}", "\n">>

\* the texts of two unrelated entities that hold only an id
IdOnlyTexts == {Schema_IdOnly, Schema_IdOnlyReversed}

\* the relation dialog on a connection drawn between the two entities
RelateInit ==
    /\ text \in IdOnlyTexts
    /\ input = text
    /\ original = text
    /\ conn \in {c \in Connections : c.sourceModel # c.targetModel}
    /\ opts \in OptionsSpace
    /\ calls = 0

InitRelate ==
    RelateInit /\ HistoryIdle /\ ConvertIdle /\ ParseIdle /\ EditorIdle
        /\ StoreIdle /\ CanvasIdle

SpecRelate == InitRelate /\ [][MutateNext]_vars

\* the edges of the diagram that parsing and converting the text gives
EdgesOfText(t) == convertSchemaToNodesAndEdges(parsePrismaSchema(t)).edges

\* the edges that join the two entities of the connection
EdgesJoining(t) ==
    SelectSeq(EdgesOfText(t),
              LAMBDA e : {e.source, e.target} = {conn.sourceModel, conn.targetModel})

\* the call is the first one and its cardinality is 1-1, 1-M or M-M in
\* implicit mode
CardinalityCall ==
    /\ calls = 1
    /\ opts.type \in {"1-1", "1-M"} \/ (opts.type = "M-M" /\ opts.mode = "implicit")

\* C25: after the mutator was applied with cardinality 1-1, 1-M or implicit
\* M-M to a text of two unrelated entities that hold only an id, parsing and
\* converting the returned text gives exactly one edge between the two
\* entities, and its cardinality is the one of the call.
C25_OneEdgeOfCardinality ==
    CardinalityCall
        => /\ Len(EdgesJoining(text)) = 1
           /\ EdgesJoining(text)[1].relationType = opts.type

\* a cardinality call was made and the converted diagram has an edge
C25_Related ==
    /\ CardinalityCall
    /\ EdgesOfText(input) = <<>>
    /\ EdgesOfText(text) # <<>>

(***************************************************************************)
(* Claims about the debounced history save                                 *)
(***************************************************************************)

\* the last step restored a state that undo or redo returned
Restored == canvasOp \in {"undo", "redo"} /\ ret # NullState

\* the timer of the debounced save fires
SaveFires == saveTimeout /\ canvasOp' = "save"

\* C26: the debounced save that follows an undo or a redo that restored a
\* state pushes nothing and leaves the buffer and the cursor as they are, a
\* redo that follows the undo and that save returns the entry the undo left,
\* and the debounced save pushes only when the shown nodes and edges differ
\* from the last saved state.
C26_SaveAfterRestore ==
    [][/\ (SaveFires /\ Restored)
            => UNCHANGED <<history, historyIndex, stamp>>
       /\ (canvasOp = "save" /\ prevCanvasOp = "undo" /\ lastOp = "undo"
               /\ ret # NullState /\ canvasOp' = "redo")
            => (ret' = before /\ shown' = before)
       /\ SaveFires
            => (stamp' # stamp <=> (shown # NoNodes /\ shown # lastSave))]_vars

\* an undo restored a state, the debounced save ran after it, and an entry
\* lies after the cursor
C26_SavedAfterUndo ==
    /\ canvasOp = "save"
    /\ prevCanvasOp = "undo"
    /\ lastOp = "undo"
    /\ ret # NullState
    /\ historyIndex < Len(history) - 1

(***************************************************************************)
(* Claims about the nodes and the edge ids of a diagram                    *)
(***************************************************************************)

\* the ids of the nodes of the diagram
NodeIds == {nodes[i].id : i \in 1..Len(nodes)}

\* C27: in the diagram the converter returns for a document whose entity
\* names are pairwise distinct, every entity has exactly one node whose id
\* is the entity name and there is no other node, the ids of the edges are
\* pairwise distinct, and the source and the target of every edge are ids
\* of nodes of the diagram.
C27_DiagramWellFormed ==
    (/\ cpc = "converted"
     /\ \A i, j \in 1..Len(schema) : i # j => schema[i].name # schema[j].name)
        => /\ \A m \in 1..Len(schema) :
                  Cardinality({i \in 1..Len(nodes) : nodes[i].id = schema[m].name}) = 1
           /\ Len(nodes) = Len(schema)
           /\ \A i, j \in 1..Len(edges) : i # j => edges[i].id # edges[j].id
           /\ \A i \in 1..Len(edges) :
                  edges[i].source \in NodeIds /\ edges[i].target \in NodeIds

\* a diagram with two or more edges was returned, one of them an implicit
\* many-to-many edge of an entity with two list fields
C27_SeveralEdges ==
    /\ cpc = "converted"
    /\ Len(edges) >= 2
    /\ \E i \in 1..Len(edges) : edges[i].relationType = "M-M"
    /\ \E m \in 1..Len(schema) :
           Cardinality({k \in 1..Len(schema[m].fields) : schema[m].fields[k].isList}) >= 2

(***************************************************************************)
(* Claims about the main file of the store                                 *)
(***************************************************************************)

\* the files of the list that are marked as main
MainFiles(files) == SelectSeq(files, LAMBDA f : f.isMain)

\* the step is a call of importSchemas(files, replace)
ImportStep(replace) ==
    /\ storeCalls' = storeCalls + 1
    /\ storeCall'.op = "import"
    /\ storeCall'.replace = replace

\* the files the step appended are not main and the files before it are as
\* they were
MergeKeepsMain ==
    /\ Len(schemaFiles') = Len(schemaFiles) + Len(storeCall'.files)
    /\ SubSeq(schemaFiles', 1, Len(schemaFiles)) = schemaFiles
    /\ \A i \in Len(schemaFiles) + 1..Len(schemaFiles') : ~schemaFiles'[i].isMain

\* C28: after importSchemas with replace = true and a non-empty list of
\* files the store holds a file marked as main, whatever the isMain flags of
\* the imported files were; with replace = false no imported file is marked
\* main and the files of the store, the main file among them, stay as they
\* were.
C28_ImportKeepsMain ==
    [][/\ (ImportStep(TRUE) /\ storeCall'.files # <<>>)
            => MainFiles(schemaFiles') # <<>>
       /\ ImportStep(FALSE) => MergeKeepsMain]_vars

\* C28, the part that holds: a merging import marks no imported file as main
\* and keeps the files of the store, and a replacing import of files none of
\* which is flagged marks the first one as main.
C28_ImportUnflagged ==
    [][/\ (ImportStep(TRUE) /\ storeCall'.files # <<>>
              /\ MainFiles(storeCall'.files) = <<>>)
            => (schemaFiles'[1].isMain /\ Len(MainFiles(schemaFiles')) = 1)
       /\ ImportStep(FALSE) => MergeKeepsMain]_vars

\* a replacing import of a flagged file left the store without a main file
C28_NoMainAfterReplace ==
    /\ storeCall.op = "import"
    /\ storeCall.replace
    /\ MainFiles(storeCall.files) # <<>>
    /\ schemaFiles # <<>>
    /\ MainFiles(schemaFiles) = <<>>

\* the step is a call of the named operation in a run without importSchemas
StoreStep(op) ==
    /\ storeCalls' = storeCalls + 1
    /\ storeCall'.op = op
    /\ ~imported'

\* the file deleteSchemaFile finds under the name is the main file
FindsMain(fileId) ==
    /\ FilesNamed(schemaFiles, fileId) # <<>>
    /\ FilesNamed(schemaFiles, fileId)[1].isMain

\* activeFileId is null or the name of a file of the store
ActiveIsPresent ==
    \/ activeFileId = NullFileId
    \/ \E i \in 1..Len(schemaFiles) : activeFileId = FileId(schemaFiles[i].name)

\* C29: deleteSchemaFile called on the main file changes neither the files
\* nor the active file.  From the initial store on, as long as the calls are
\* addSchemaFile with files that are not main, deleteSchemaFile,
\* renameSchemaFile and updateSchemaFile, the store holds exactly one main
\* file, activeFileId is null or names a file of the store, and a call of
\* renameSchemaFile leaves as many different file names as there were, so it
\* gives no two files the same name.
C29_StoreKeepsMain ==
    /\ [](~imported => (Len(MainFiles(schemaFiles)) = 1 /\ ActiveIsPresent))
    /\ [][/\ (StoreStep("delete") /\ FindsMain(storeCall'.fileId))
               => UNCHANGED <<schemaFiles, activeFileId>>
          /\ StoreStep("rename")
               => Cardinality(FileNames(schemaFiles'))
                      = Cardinality(FileNames(schemaFiles))]_vars

\* deleteSchemaFile was called on the main file of a store that holds other
\* files too
C29_DeleteOnMain ==
    /\ ~imported
    /\ storeCall.op = "delete"
    /\ Len(schemaFiles) >= 2
    /\ storeCall.fileId = schemaFiles[1].name
    /\ schemaFiles[1].isMain

(***************************************************************************)
(* Parser runs on texts whose string literals hold comment markers         *)
(***************************************************************************)

Str_datasource == <<"d", "a", "t", "a", "s", "o", "u", "r", "c", "e">>
Str_url == <<"u", "r", "l">>
Str_providerKey == <<"p", "r", "o", "v", "i", "d", "e", "r">>

\* datasource\s+(\w+)\s*\{ tried at position p: the position after "{", -1
\* when the pattern does not match there
DatasourceOpen(s, p) ==
    IF /\ StartsWithAt(s, p, Str_datasource)
       /\ SkipSpaces(s, p + Len(Str_datasource)) > p + Len(Str_datasource)
       /\ SkipWord(s, SkipSpaces(s, p + Len(Str_datasource)))
              > SkipSpaces(s, p + Len(Str_datasource))
    THEN OpenBraceEnd(s, SkipSpaces(s, SkipWord(s,
             SkipSpaces(s, p + Len(Str_datasource)))))
    ELSE -1

\* ([^}]+)\} from position o: the position of the first "}", which has to
\* lie after one character or more; -1 for no match
BlockClose(s, o) ==
    IF o = -1 THEN -1
    ELSE IF MinOr({q \in o..(Len(s) - 1) : s[q + 1] = "}"}, -1) > o
    THEN MinOr({q \in o..(Len(s) - 1) : s[q + 1] = "}"}, -1)
    ELSE -1

\* the null of a match
NoText == [defined |-> FALSE, value |-> <<>>]

SomeText(value) == [defined |-> TRUE, value |-> value]

\* cleanSchema.match(/datasource\s+(\w+)\s*\{([^}]+)\}/): group 2 of the
\* first match
DatasourceContent(s) ==
    LET p == MinOr({q \in 0..(Len(s) - Len(Str_datasource)) :
                        BlockClose(s, DatasourceOpen(s, q)) # -1}, -1)
    IN IF p = -1 THEN NoText
       ELSE SomeText(Substring(s, DatasourceOpen(s, p),
                               BlockClose(s, DatasourceOpen(s, p))))

\* key\s*=\s*" tried at position p: the position after the quote, -1 when
\* the pattern does not match there
QuoteOpen(content, key, p) ==
    IF /\ StartsWithAt(content, p, key)
       /\ StartsWithAt(content, SkipSpaces(content, p + Len(key)), <<"=">>)
       /\ StartsWithAt(content,
              SkipSpaces(content, SkipSpaces(content, p + Len(key)) + 1),
              Str_Quote)
    THEN SkipSpaces(content, SkipSpaces(content, p + Len(key)) + 1) + 1
    ELSE -1

\* ([^"]+)" from position o: the position of the first quote, which has to
\* lie after one character or more; -1 for no match
QuoteClose(content, o) ==
    IF o = -1 THEN -1
    ELSE IF MinOr({q \in o..(Len(content) - 1) : content[q + 1] = "\""}, -1) > o
    THEN MinOr({q \in o..(Len(content) - 1) : content[q + 1] = "\""}, -1)
    ELSE -1

\* content.match(/key\s*=\s*"([^"]+)"/)?.[1]
QuotedValue(content, key) ==
    LET p == MinOr({q \in 0..(Len(content) - Len(key)) :
                        QuoteClose(content, QuoteOpen(content, key, q)) # -1}, -1)
    IN IF p = -1 THEN NoText
       ELSE SomeText(Substring(content, QuoteOpen(content, key, p),
                               QuoteClose(content, QuoteOpen(content, key, p))))

\* result.datasource of the parser, run on cleanSchema
DatasourceOfClean(cleanSchema) ==
    IF ~DatasourceContent(cleanSchema).defined
    THEN [present |-> FALSE, provider |-> <<>>, url |-> NoText]
    ELSE [present |-> TRUE,
          provider |->
              IF QuotedValue(DatasourceContent(cleanSchema).value,
                             Str_providerKey).defined
              THEN QuotedValue(DatasourceContent(cleanSchema).value,
                               Str_providerKey).value
              ELSE Str_postgresql,
          url |-> QuotedValue(DatasourceContent(cleanSchema).value, Str_url)]

\* parsePrismaSchema(source).datasource
parseDatasource(source) == DatasourceOfClean(CleanSchema(source))

Value_postgresUrl ==
    <<"p", "o", "s", "t", "g", "r", "e", "s", "q", "l", ":", "/", "/", "h",
      "o", "s", "t", "/", "d", "b">>
Value_fileUrl == <<"f", "i", "l", "e", ":", "d", "e", "v", ".", "d", "b">>
Str_urlAssign == <<" ", " ", "u", "r", "l", " ", "=", " ", "\"">>
Line_providerQuoted ==
    <<" ", " ", "p", "r", "o", "v", "i", "d", "e", "r", " ", "=", " ",
      "\"", "p", "o", "s", "t", "g", "r", "e", "s", "q", "l", "\"">>
Line_datasourceDb ==
    <<"d", "a", "t", "a", "s", "o", "u", "r", "c", "e", " ", "d", "b", " ",
      "{">>

\* the line url = "<value>"
UrlLine(value) == Str_urlAssign \o value \o Str_Quote

Str_site == <<"s", "i", "t", "e">>
Str_nameField == <<"n", "a", "m", "e">>
Value_link == <<"h", "t", "t", "p", ":", "/", "/", "x">>
Value_opener == <<"a", "/", "*", "b">>
Value_plain == <<"x">>
Str_DefaultOpen == <<"@", "d", "e", "f", "a", "u", "l", "t", "(", "\"">>
Str_StringType == <<" ", "S", "t", "r", "i", "n", "g", " ">>
Line_ageCommented ==
    <<" ", " ", "a", "g", "e", " ", "I", "n", "t", " ", "/", "*", " ", "y",
      "e", "a", "r", "s", " ", "*", "/">>

\* the line <name> String @default("<value>") @unique
LiteralLine(name, value) ==
    Str_TwoSpaces \o name \o Str_StringType \o Str_DefaultOpen \o value
        \o Str_QuoteParen \o Str_Space \o Str_AtUnique

\* the fields with a string literal: the name and the literal
LiteralFields ==
    {<<Str_site, Value_link>>, <<Str_note, Value_opener>>,
     <<Str_nameField, Value_plain>>}

\* lines of a body typed with string literals
MaxQuotedLines == 2

QuotedPalette ==
    {Line_id, Line_ageCommented}
    \cup {LiteralLine(f[1], f[2]) : f \in LiteralFields}

UrlValues == {Value_postgresUrl, Value_fileUrl}

\* the bodies of the datasource: the url line alone, after or before the
\* provider line
DatasourceBodies ==
    UNION {{<<UrlLine(v)>>, <<Line_providerQuoted, UrlLine(v)>>,
            <<UrlLine(v), Line_providerQuoted>>} : v \in UrlValues}

\* a datasource followed by model Post with the typed lines
QuotedText(datasourceLines, lines) ==
    Line_datasourceDb \o Str_Newline \o JoinLines(datasourceLines)
        \o Str_Newline \o Str_CloseBrace \o Str_Newline \o Str_Newline
        \o Line_modelPost \o Str_Newline \o JoinLines(lines) \o Str_Newline
        \o Str_CloseBrace \o Str_Newline

QuotedTexts ==
    {QuotedText(d, lines) :
        d \in DatasourceBodies, lines \in SeqsUpTo(QuotedPalette, MaxQuotedLines)}

\* a text with string literals was typed in
QuotedInit ==
    /\ diagram = EmptyDiagram
    /\ written \in QuotedTexts
    /\ parsed = <<>>
    /\ ppc = "text"
    /\ inserted = FALSE

InitQuoted ==
    QuotedInit /\ HistoryIdle /\ ConvertIdle /\ MutateIdle /\ EditorIdle
        /\ StoreIdle /\ CanvasIdle

QuotedNext == Parse

SpecQuoted == InitQuoted /\ [][QuotedNext]_vars

(***************************************************************************)
(* Claims about comment markers inside string literals                     *)
(***************************************************************************)

\* the attributes of the parsed fields of Post that carry the name
AttributesOf(name) ==
    UNION {{parsed[m].fields[k].attributes :
               k \in {j \in 1..Len(parsed[m].fields) :
                          parsed[m].fields[j].name = name}} :
           m \in {i \in 1..Len(parsed) : parsed[i].name = Str_Post}}

\* the url of the text is parsed as written
UrlAsWritten(value) ==
    Includes(written, UrlLine(value))
        => parseDatasource(written).url = SomeText(value)

\* the attributes of the field line with the literal are the default with
\* the literal and @unique
AttributesAsWritten(name, value) ==
    Includes(written, LiteralLine(name, value))
        => AttributesOf(name)
               = {<<Str_DefaultOpen \o value \o Str_QuoteParen, Str_AtUnique>>}

\* C30: comment stripping takes no // and no /* inside a double-quoted
\* string literal as the start of a comment: the url of the datasource is
\* parsed as it is written between the quotes, and the attributes of a field
\* line are extracted with and after the string literal.
C30_LiteralsKept ==
    ppc = "parsed"
        => /\ \A value \in UrlValues : UrlAsWritten(value)
           /\ \A f \in LiteralFields : AttributesAsWritten(f[1], f[2])

\* C30, the part that holds: a url and a field line whose string literal
\* holds neither // nor a /* that a later */ closes are parsed as written.
C30_PlainLiteralsKept ==
    ppc = "parsed"
        => /\ UrlAsWritten(Value_fileUrl)
           /\ AttributesAsWritten(Str_nameField, Value_plain)
           /\ ~Includes(written, Line_ageCommented)
                  => AttributesAsWritten(Str_note, Value_opener)

\* the url postgresql://host/db was written and the parsed url is another
C30_UrlCut ==
    /\ ppc = "parsed"
    /\ Includes(written, UrlLine(Value_postgresUrl))
    /\ parseDatasource(written).url # SomeText(Value_postgresUrl)

====
